---------------------------- MODULE Spec2Model ----------------------------
(***************************************************************************)
(* Verification model of the IngreSure compliance core:                    *)
(*   key normalisation, the ingredient registry with its API fallback,     *)
(*   the restriction rule engine, the compliance engine and its            *)
(*   confidence score.                                                     *)
(*                                                                         *)
(* Strings are sequences of tokens.  A token is either a run of letters    *)
(* (an atomic word such as "milk" or "Eggs") or a single separator         *)
(* character (" ", ".", "*", ",", "-", "_").  No word of the universe is   *)
(* the concatenation of other words, so equality of token sequences is     *)
(* equality of the strings they spell.                                     *)
(*                                                                         *)
(* Confidence scores are integers in units of 1/10000 (the code rounds     *)
(* to four decimals).                                                      *)
(***************************************************************************)
EXTENDS Integers, Sequences, FiniteSets, TLC

(***************************************************************************)
(* Bounds of the model                                                     *)
(***************************************************************************)
\* longest ingredient list over the full universe of raw strings
MaxLen == 3
\* longest ingredient list over the reduced universe LongRaws
MaxLongLen == 5
\* cap on the frequency counter of one unknown-log entry
MaxFreq == 1
\* the longest rule list of a restriction
MaxRules == 2
\* longest ingredient list of a call on a freshly constructed engine
MaxStartupLen == 2
\* the hours a process is followed
MaxClock == 2
\* the direct fetches of a process
MaxFetches == 2
\* the direct record calls of a process
MaxRecords == 2
\* the direct update_profile_partial calls of a process
MaxUpdates == 2
\* the length of the ingredient lists that are evaluated twice
MaxPureLen == 2
\* the number of tokens of a text that is flattened
MaxTextLen == 4
\* longest ingredient label handed to preprocess_ingredients, in tokens
MaxLabelLen == 5
\* longest query handed to detect_intent, in words and commas
MaxQueryLen == 4

(***************************************************************************)
(* Strings                                                                 *)
(***************************************************************************)
\* str.lower() on one token: only the capitalised words of the universe change
LowerTok(tok) ==
    CASE tok = "Eggs" -> "eggs"
      [] tok = "Xyz" -> "xyz"
      [] tok = "Isinglass" -> "isinglass"
      [] tok = "Milk" -> "milk"
      [] tok = "Bread" -> "bread"
      [] tok = "Halal" -> "halal"
      [] OTHER -> tok

Lower(s) == [i \in 1..Len(s) |-> LowerTok(s[i])]

RECURSIVE LStrip(_)
LStrip(s) == IF s # <<>> /\ Head(s) = " " THEN LStrip(Tail(s)) ELSE s

RECURSIVE RStrip(_)
RStrip(s) == IF s # <<>> /\ s[Len(s)] = " " THEN RStrip(SubSeq(s, 1, Len(s) - 1)) ELSE s

\* str.strip()
Strip(s) == RStrip(LStrip(s))

\* str.replace(c, "") for every c of chars
RECURSIVE RemoveToks(_, _)
RemoveToks(s, chars) ==
    IF s = <<>> THEN <<>>
    ELSE IF Head(s) \in chars THEN RemoveToks(Tail(s), chars)
    ELSE <<Head(s)>> \o RemoveToks(Tail(s), chars)

\* every token of chars becomes a space
ReplaceToks(s, chars) == [i \in 1..Len(s) |-> IF s[i] \in chars THEN " " ELSE s[i]]

\* re.sub(r"\s+", " ", t)
RECURSIVE CollapseSpaces(_)
CollapseSpaces(s) ==
    IF Len(s) < 2 THEN s
    ELSE IF s[1] = " " /\ s[2] = " " THEN CollapseSpaces(Tail(s))
    ELSE <<Head(s)>> \o CollapseSpaces(Tail(s))

\* str.split(): the words of s, a word being a maximal run of non-space tokens
RECURSIVE SplitWords(_, _)
SplitWords(s, cur) ==
    IF s = <<>> THEN (IF cur = <<>> THEN <<>> ELSE <<cur>>)
    ELSE IF Head(s) = " "
         THEN (IF cur = <<>> THEN <<>> ELSE <<cur>>) \o SplitWords(Tail(s), <<>>)
         ELSE SplitWords(Tail(s), Append(cur, Head(s)))

Words(s) == SplitWords(s, <<>>)

\* s contains sub as a contiguous run (Python's "sub in s")
Contains(s, sub) ==
    \E i \in 1..(Len(s) + 1) :
        /\ i + Len(sub) - 1 <= Len(s)
        /\ SubSeq(s, i, i + Len(sub) - 1) = sub

\* normalizer.KNOWN_VARIANTS, the entries whose keys occur in the universe
KNOWN_VARIANTS ==
    ( <<"eggs">> :> <<"egg">> ) @@
    ( <<"isinglass">> :> <<"isinglass">> ) @@
    ( <<"e120">> :> <<"carmine">> )

\* normalizer.normalize_ingredient_key
normalize_ingredient_key(text) ==
    IF text = <<>> THEN <<>>
    ELSE LET t1 == Strip(Lower(text))
             t2 == RemoveToks(t1, {"*", "."})
             t3 == ReplaceToks(t2, {",", ";", ":", "-"})
             t4 == Strip(CollapseSpaces(t3))
         IN  IF t4 \in DOMAIN KNOWN_VARIANTS THEN KNOWN_VARIANTS[t4] ELSE t4

\* ingredient_registry._normalize_key
NormalizeKey(text) == normalize_ingredient_key(text)

\* compliance_engine: key = (raw or "").lower().strip()
EngineKey(raw) == Strip(Lower(raw))


(***************************************************************************)
(* Ingredients (ingredient_schema.Ingredient)                              *)
(* Field values are JSON scalars written as strings: "true", "false",      *)
(* "none" (null), a species name, or a number ("0", "1").  An id is the    *)
(* token sequence of its slug.                                             *)
(***************************************************************************)
MkIngredient(id, name, aliases, animal, dairy, egg, species, alcohol) ==
    [ id |-> id, canonical_name |-> name, aliases |-> aliases,
      animal_origin |-> animal, dairy_source |-> dairy, egg_source |-> egg,
      insect_derived |-> "false",
      animal_species |-> species, alcohol_content |-> alcohol ]

\* Python's None where an Optional[Ingredient] is expected
NoIngredient == MkIngredient(<<>>, <<>>, <<>>, "false", "false", "false", "none", "none")

IsNone(ing) == ing.id = <<>>

\* Ingredient.meat_fish_derived
meat_fish_derived(ing) ==
    IF /\ ing.animal_origin = "true"
       /\ ing.dairy_source # "true"
       /\ ing.egg_source # "true"
       /\ ing.insect_derived # "true"
    THEN "true" ELSE "false"

\* data/ontology.json as loaded: the static ontology of the model
ING_water == MkIngredient(<<"water">>, <<"water">>, <<>>, "false", "false", "false", "none", "none")
ING_milk == MkIngredient(<<"milk">>, <<"milk">>, <<>>, "true", "true", "false", "cow", "none")
ING_egg == MkIngredient(<<"egg">>, <<"egg">>, <<>>, "true", "false", "true", "chicken", "none")

StaticOntology == <<ING_water, ING_milk, ING_egg>>

(***************************************************************************)
(* Restrictions (restriction_schema, restriction_registry)                 *)
(***************************************************************************)
MkRule(field, operator, value, action) ==
    [ field |-> field, operator |-> operator, value |-> value, action |-> action ]

\* data/restrictions.json as loaded, in file order
RestrictionOrder == <<"vegan", "dairy_caution", "no_fish">>

Restrictions ==
    [ vegan |->
        [ id |-> "vegan", region_scope |-> {"GLOBAL"},
          rules |-> << MkRule("animal_origin", "equals", <<"true">>, "FAIL") >> ],
      dairy_caution |->
        [ id |-> "dairy_caution", region_scope |-> {"GLOBAL", "EU"},
          rules |-> << MkRule("dairy_source", "equals", <<"true">>, "WARN"),
                       MkRule("animal_origin", "equals", <<"true">>, "FAIL") >> ],
      no_fish |->
        [ id |-> "no_fish", region_scope |-> {"GLOBAL", "EU"},
          rules |-> << MkRule("animal_species", "in_list", <<"fish", "shellfish">>, "FAIL"),
                       MkRule("meat_fish_derived", "not_equals", <<"false">>, "WARN"),
                       MkRule("alcohol_content", "greater_than", <<"0">>, "WARN"),
                       MkRule("aliases", "contains", <<"xyz">>, "WARN") >> ] ]

\* RestrictionRegistry._by_id: the restrictions by id and the order of the keys
MkRestrictionRegistry(order, by_id) == [ order |-> order, by_id |-> by_id ]

\* RestrictionRegistry.__init__: _by_id = {}
EmptyRestrictions == MkRestrictionRegistry(<<>>, << >>)

\* RestrictionRegistry after _load has read data/restrictions.json
LoadedRestrictions == MkRestrictionRegistry(RestrictionOrder, Restrictions)

\* RestrictionRegistry.get: the ids that are keys of _by_id
HasRestriction(registry, rid) == rid \in DOMAIN registry.by_id

\* RestrictionRegistry.list_ids
list_ids(registry) == registry.order

ListFields == {"aliases"}

\* restriction_registry._get_ingredient_value, for the scalar fields;
\* a name that is no attribute of Ingredient yields None
_get_ingredient_value(ing, field) ==
    CASE field = "animal_origin" -> ing.animal_origin
      [] field = "dairy_source" -> ing.dairy_source
      [] field = "egg_source" -> ing.egg_source
      [] field = "insect_derived" -> ing.insect_derived
      [] field = "animal_species" -> ing.animal_species
      [] field = "alcohol_content" -> ing.alcohol_content
      [] field = "meat_fish_derived" -> meat_fish_derived(ing)
      [] OTHER -> "none"

\* float(v): defined on numbers and booleans, a ValueError on other strings
IsNumeric(v) == v \in {"0", "1", "true", "false"}
FloatOf(v) == IF v \in {"1", "true"} THEN 1 ELSE 0

\* A rule value is written as the list of its elements: a scalar target is a
\* one-element list (in_list wraps a scalar the same way).
ScalarTarget(rule) == rule.value[1]
TargetSet(rule) == { rule.value[i] : i \in 1..Len(rule.value) }

\* restriction_registry._evaluate_rule
_evaluate_rule(ing, rule) ==
    LET op == rule.operator
        isList == rule.field \in ListFields
        val == _get_ingredient_value(ing, rule.field)
    IN  CASE op = "equals" ->
               IF isList THEN FALSE ELSE val = ScalarTarget(rule)
          [] op = "not_equals" ->
               IF isList THEN TRUE ELSE val # ScalarTarget(rule)
          [] op = "contains" ->
               IF isList
               THEN \E i \in 1..Len(ing.aliases) : ing.aliases[i] = <<ScalarTarget(rule)>>
               ELSE val # "none" /\ val = ScalarTarget(rule)
          [] op = "greater_than" ->
               IF isList \/ val = "none" THEN FALSE
               ELSE IF IsNumeric(val) /\ IsNumeric(ScalarTarget(rule))
                    THEN FloatOf(val) > FloatOf(ScalarTarget(rule))
                    ELSE FALSE
          [] op = "in_list" ->
               IF isList \/ val = "none" THEN FALSE
               ELSE val \in TargetSet(rule)
          [] OTHER -> FALSE

\* RestrictionRegistry.evaluate: scan the rules in order, return at the first match
RECURSIVE EvaluateRules(_, _, _)
EvaluateRules(ing, rules, i) ==
    IF i > Len(rules) THEN "PASS"
    ELSE IF _evaluate_rule(ing, rules[i]) THEN rules[i].action
    ELSE EvaluateRules(ing, rules, i + 1)

\* Faulty variant of RestrictionRegistry.evaluate: the scan does not stop at the
\* first match, so the last matching rule decides
RECURSIVE EvaluateRulesFromEnd(_, _, _)
EvaluateRulesFromEnd(ing, rules, i) ==
    IF i < 1 THEN "PASS"
    ELSE IF _evaluate_rule(ing, rules[i]) THEN rules[i].action
    ELSE EvaluateRulesFromEnd(ing, rules, i - 1)

RestrictionEvaluate_last_match(ing, rest) == EvaluateRulesFromEnd(ing, rest.rules, Len(rest.rules))

RestrictionEvaluate(ing, rest) == EvaluateRules(ing, rest.rules, 1)


(***************************************************************************)
(* External APIs (usda_fdc, open_food_facts, fetcher)                      *)
(* The world holds what each service answers to a search: its first food   *)
(* item, or NoFood for an error, a timeout or an empty result.  A food     *)
(* carries its name and the origin flags and species the connector infers  *)
(* from its text and category.                                             *)
(***************************************************************************)
MkFood(desc, animal, dairy, egg, species) ==
    [ desc |-> desc, animal_origin |-> animal, dairy_source |-> dairy,
      egg_source |-> egg, animal_species |-> species ]

NoFood == MkFood(<<>>, "false", "false", "false", "none")

FOOD_plant == MkFood(<<"Xyz">>, "false", "false", "false", "none")
FOOD_fish == MkFood(<<"Xyz", " ", "fish">>, "true", "false", "false", "fish")
FOOD_isinglass == MkFood(<<"Isinglass">>, "true", "false", "false", "fish")
\* "Milk" in a category that is neither animal nor plant (e.g. Beverages): the
\* text keywords make it a dairy source, but "milk" is no animal keyword
FOOD_milk == MkFood(<<"Milk">>, "false", "true", "false", "none")

\* base.EnrichmentResult
MkResult(ing, confidence, source) ==
    [ ingredient |-> ing, confidence |-> confidence, source |-> source ]

Separators == {" ", ".", "*", ",", ";", ":", "-", "_"}

RECURSIVE StripUnderscore(_)
StripUnderscore(s) ==
    IF s # <<>> /\ Head(s) = "_" THEN StripUnderscore(Tail(s))
    ELSE IF s # <<>> /\ s[Len(s)] = "_" THEN StripUnderscore(SubSeq(s, 1, Len(s) - 1))
    ELSE s

RECURSIVE CollapseUnderscores(_)
CollapseUnderscores(s) ==
    IF Len(s) < 2 THEN s
    ELSE IF s[1] = "_" /\ s[2] = "_" THEN CollapseUnderscores(Tail(s))
    ELSE <<Head(s)>> \o CollapseUnderscores(Tail(s))

\* usda_fdc._normalize_id: re.sub(r"[^a-z0-9]+", "_", name.lower().strip()).strip("_")
_normalize_id(name) ==
    LET low == Strip(Lower(name))
        sub == CollapseUnderscores([i \in 1..Len(low) |->
                                      IF low[i] \in Separators THEN "_" ELSE low[i]])
        slug == StripUnderscore(sub)
    IN  IF slug = <<>> THEN <<"unknown">> ELSE slug

\* the confidence test shared by both connectors
NearMatch(name, q_lower) ==
    \/ Contains(name, q_lower)
    \/ Contains(q_lower, name)
    \/ Contains(name, Words(q_lower)[1])

\* usda_fdc._food_to_ingredient
_food_to_ingredient(food, query) ==
    LET desc == Strip(food.desc)
        canonical == IF desc # <<>> THEN desc ELSE query
    IN  MkIngredient(<<"usda_">> \o _normalize_id(canonical), canonical,
                     IF query # <<>> /\ query # canonical THEN <<query>> ELSE <<>>,
                     food.animal_origin, food.dairy_source, food.egg_source,
                     IF food.animal_origin = "true" THEN food.animal_species ELSE "none",
                     "none")

\* usda_fdc.fetch_usda_fdc, with the outcome of get_with_retries given by food
fetch_usda_fdc(ingredient_query, has_key, food) ==
    IF ~has_key \/ Strip(ingredient_query) = <<>> THEN MkResult(NoIngredient, "low", "usda_fdc")
    ELSE IF food = NoFood THEN MkResult(NoIngredient, "low", "usda_fdc")
    ELSE LET query == Strip(ingredient_query)
             desc == Lower(Strip(food.desc))
         IN  MkResult(_food_to_ingredient(food, query),
                      IF NearMatch(desc, Lower(query)) THEN "high" ELSE "medium",
                      "usda_fdc")

\* open_food_facts._product_to_ingredient
_product_to_ingredient(food, query) ==
    LET name == IF Strip(food.desc) # <<>> THEN Strip(food.desc) ELSE query
    IN  MkIngredient(<<"off_">> \o _normalize_id(name), name,
                     IF query # <<>> /\ query # name THEN <<query>> ELSE <<>>,
                     food.animal_origin, food.dairy_source, food.egg_source,
                     "none", "none")

\* open_food_facts.fetch_open_food_facts
fetch_open_food_facts(ingredient_query, food) ==
    IF Strip(ingredient_query) = <<>> THEN MkResult(NoIngredient, "low", "open_food_facts")
    ELSE IF food = NoFood THEN MkResult(NoIngredient, "low", "open_food_facts")
    ELSE LET query == Strip(ingredient_query)
             name == Lower(Strip(food.desc))
         IN  MkResult(_product_to_ingredient(food, query),
                      IF name # <<>> /\ NearMatch(name, Lower(query)) THEN "high" ELSE "medium",
                      "open_food_facts")

\* fetcher._CACHE_MAX_ENTRIES
CACHE_MAX_ENTRIES == 500

\* an entry of fetcher._api_cache: (EnrichmentResult, timestamp)
MkCached(result, time) == [ result |-> result, time |-> time ]

\* Faulty variant of lines 50-89: Open Food Facts is asked whenever it is
\* enabled, whatever USDA has answered
choose_best_asks_both(cache, nkey, use_cache, world, query, r1, r2) ==
    LET askUsda == world.usda_key
        best1 == IF askUsda /\ ~IsNone(r1.ingredient) THEN r1 ELSE MkResult(NoIngredient, "", "")
        none1 == best1.source = ""
        askOff == world.off_enabled
        best2 == IF askOff /\ ~IsNone(r2.ingredient)
                    /\ (none1 \/ (r2.confidence = "high" /\ best1.confidence # "high"))
                 THEN r2 ELSE best1
        best == IF best2.source = "" THEN MkResult(NoIngredient, "low", "none") ELSE best2
        sent == (IF askUsda /\ query # <<>> THEN 1 ELSE 0)
                + (IF askOff /\ query # <<>> THEN 1 ELSE 0)
    IN  [ result |-> best,
          cache |-> IF use_cache /\ Cardinality(DOMAIN cache) < CACHE_MAX_ENTRIES
                    THEN [ k \in (DOMAIN cache) \cup {nkey} |->
                             IF k = nkey THEN MkCached(best, world.now) ELSE cache[k] ]
                    ELSE cache,
          requests |-> sent,
          consulted |-> (IF askUsda THEN <<"usda_fdc">> ELSE <<>>)
                        \o (IF askOff THEN <<"open_food_facts">> ELSE <<>>) ]

\* fetcher.fetch_ingredient_from_apis, lines 50-89: the choice between the
\* answers r1 of USDA and r2 of Open Food Facts (each read only if its service
\* is asked), the cache update and the number of searches sent
choose_best(cache, nkey, use_cache, world, query, r1, r2) ==
    LET askUsda == world.usda_key
        best1 == IF askUsda /\ ~IsNone(r1.ingredient) THEN r1 ELSE MkResult(NoIngredient, "", "")
        none1 == best1.source = ""
        askOff == world.off_enabled /\ (none1 \/ best1.confidence = "low")
        best2 == IF askOff /\ ~IsNone(r2.ingredient)
                    /\ (none1 \/ (r2.confidence = "high" /\ best1.confidence # "high"))
                 THEN r2 ELSE best1
        best == IF best2.source = "" THEN MkResult(NoIngredient, "low", "none") ELSE best2
        sent == (IF askUsda /\ query # <<>> THEN 1 ELSE 0)
                + (IF askOff /\ query # <<>> THEN 1 ELSE 0)
    IN  [ result |-> best,
          cache |-> IF use_cache /\ Cardinality(DOMAIN cache) < CACHE_MAX_ENTRIES
                    THEN [ k \in (DOMAIN cache) \cup {nkey} |->
                             IF k = nkey THEN MkCached(best, world.now) ELSE cache[k] ]
                    ELSE cache,
          requests |-> sent,
          consulted |-> (IF askUsda THEN <<"usda_fdc">> ELSE <<>>)
                        \o (IF askOff THEN <<"open_food_facts">> ELSE <<>>) ]

\* the query sent to the services: the key with its underscores as spaces
QueryOf(nkey) == Strip(ReplaceToks(nkey, {"_"}))

\* fetcher.fetch_ingredient_from_apis (and enrich_unknown_ingredient, which only
\* forwards to it).  The cache is keyed by the normalized key itself: the
\* SHA-256 prefix is taken to be collision free.  Yields the result, the cache
\* afterwards, the number of searches sent to the services and the connectors
\* that were called, in the order of the calls.
fetch_ingredient_from_apis(cache, nkey, use_cache, world) ==
    IF use_cache /\ nkey \in DOMAIN cache
    THEN [ result |-> cache[nkey].result, cache |-> cache, requests |-> 0,
           consulted |-> <<>> ]
    ELSE choose_best(cache, nkey, use_cache, world, QueryOf(nkey),
                     fetch_usda_fdc(QueryOf(nkey), world.usda_key, world.usda),
                     fetch_open_food_facts(QueryOf(nkey), world.off))


(***************************************************************************)
(* Unknown-ingredient log (unknown_log.UnknownIngredientsLog)              *)
(* Timestamps and the profile context sample are left out.                 *)
(***************************************************************************)
\* unknown_log.record: the [:20] and [:10] slices
RAW_INPUTS_CAP == 20
RESTRICTION_SAMPLE_CAP == 10
\* unknown_log.record: restriction_ids[:5]
RESTRICTION_TAKE == 5

Prefix(s, n) == SubSeq(s, 1, IF Len(s) < n THEN Len(s) ELSE n)

InSeq(x, s) == \E i \in 1..Len(s) : s[i] = x

RECURSIVE AddMissing(_, _)
AddMissing(sample, rids) ==
    IF rids = <<>> THEN sample
    ELSE AddMissing(IF InSeq(Head(rids), sample) THEN sample ELSE Append(sample, Head(rids)),
                    Tail(rids))

\* Faulty variant of record: the list of raw inputs is not cut to 20 items
record_no_cap(log, raw_input, normalized_key, restriction_ids) ==
    IF normalized_key = <<>> THEN log
    ELSE LET old == IF normalized_key \in DOMAIN log THEN log[normalized_key]
                    ELSE [ raw_inputs |-> <<>>, frequency |-> 0,
                           restriction_ids_sample |-> <<>> ]
             ent == [ raw_inputs |->
                        IF raw_input # <<>> /\ ~InSeq(raw_input, old.raw_inputs)
                        THEN Append(old.raw_inputs, raw_input)
                        ELSE old.raw_inputs,
                      frequency |-> old.frequency + 1,
                      restriction_ids_sample |->
                        IF restriction_ids # <<>>
                        THEN Prefix(AddMissing(old.restriction_ids_sample,
                                               Prefix(restriction_ids, RESTRICTION_TAKE)),
                                    RESTRICTION_SAMPLE_CAP)
                        ELSE old.restriction_ids_sample ]
         IN  [ k \in (DOMAIN log) \cup {normalized_key} |->
                 IF k = normalized_key THEN ent ELSE log[k] ]

\* UnknownIngredientsLog.record (log_unknown_ingredient forwards to it);
\* restriction_ids is <<>> for None
record(log, raw_input, normalized_key, restriction_ids) ==
    IF normalized_key = <<>> THEN log
    ELSE LET old == IF normalized_key \in DOMAIN log THEN log[normalized_key]
                    ELSE [ raw_inputs |-> <<>>, frequency |-> 0,
                           restriction_ids_sample |-> <<>> ]
             ent == [ raw_inputs |->
                        IF raw_input # <<>> /\ ~InSeq(raw_input, old.raw_inputs)
                        THEN Prefix(Append(old.raw_inputs, raw_input), RAW_INPUTS_CAP)
                        ELSE old.raw_inputs,
                      frequency |-> old.frequency + 1,
                      restriction_ids_sample |->
                        IF restriction_ids # <<>>
                        THEN Prefix(AddMissing(old.restriction_ids_sample,
                                               Prefix(restriction_ids, RESTRICTION_TAKE)),
                                    RESTRICTION_SAMPLE_CAP)
                        ELSE old.restriction_ids_sample ]
         IN  [ k \in (DOMAIN log) \cup {normalized_key} |->
                 IF k = normalized_key THEN ent ELSE log[k] ]

(***************************************************************************)
(* Dynamic ontology file (dynamic_ontology.DynamicOntology)                *)
(***************************************************************************)
\* DynamicOntology.append on a freshly loaded file (append_to_dynamic_ontology):
\* dedupe by id, else add the entry and rewrite the file
DynAppend(file, ingredient, source, confidence) ==
    IF \E i \in 1..Len(file) : file[i].ingredient.id = ingredient.id
    THEN file
    ELSE Append(file, [ ingredient |-> ingredient,
                        enrichment_source |-> source,
                        enrichment_confidence |-> confidence ])

\* whether append_to_dynamic_ontology reaches _save, which opens the file for writing
DynAppendWrites(file, ingredient) ==
    ~ \E i \in 1..Len(file) : file[i].ingredient.id = ingredient.id

(***************************************************************************)
(* Ingredient registry (ingredient_registry.IngredientRegistry)            *)
(***************************************************************************)
IngredientKeys(ing) == <<ing.canonical_name>> \o ing.aliases

\* IngredientRegistry.add_ingredient: index the canonical name and every alias
RECURSIVE IndexKeys(_, _, _)
IndexKeys(index, ing, keys) ==
    IF keys = <<>> THEN index
    ELSE LET key == NormalizeKey(Head(keys))
             next == IF key # <<>>
                     THEN [ k \in (DOMAIN index) \cup {key} |->
                              IF k = key THEN ing ELSE index[k] ]
                     ELSE index
         IN  IndexKeys(next, ing, Tail(keys))

add_ingredient(index, ing) == IndexKeys(index, ing, IngredientKeys(ing))

RECURSIVE IndexAll(_, _)
IndexAll(index, ings) ==
    IF ings = <<>> THEN index
    ELSE IndexAll(add_ingredient(index, Head(ings)), Tail(ings))

EmptyIndex == [ k \in {} |-> NoIngredient ]

\* IngredientRegistry._load: the static ontology, then the dynamic file on top
LoadIndex(static, file) ==
    IndexAll(IndexAll(EmptyIndex, static), [ i \in 1..Len(file) |-> file[i].ingredient ])

\* IngredientRegistry._static_keys after _load
StaticKeys == DOMAIN IndexAll(EmptyIndex, StaticOntology)

\* IngredientRegistry.resolve
resolve(index, ingredient_str) ==
    LET key == NormalizeKey(ingredient_str)
    IN  IF key \in DOMAIN index THEN index[key] ELSE NoIngredient

\* IngredientRegistry.resolve_with_source
resolve_with_source(index, ingredient_str) ==
    LET key == NormalizeKey(ingredient_str)
    IN  IF key \notin DOMAIN index THEN [ ing |-> NoIngredient, source |-> "static" ]
        ELSE [ ing |-> index[key],
               source |-> IF key \in StaticKeys THEN "static" ELSE "dynamic" ]

_SENTENCE_VERBS ==
    { "eat", "can", "have", "does", "allow", "permit", "is", "are", "do", "will",
      "should", "could", "would", "may", "might", "shall", "make", "tell", "check",
      "know", "find", "safe", "ok", "okay" }

_DIET_WORDS ==
    { "jain", "vegan", "vegetarian", "halal", "kosher", "hindu", "pescatarian",
      "lacto", "ovo", "sikh", "buddhist" }

STOP_WORDS == { "i", "my", "me", "a", "the", "for", "to" }

\* a word of split() that is one of the listed words
WordIn(w, set) == Len(w) = 1 /\ w[1] \in set

\* _is_valid_ingredient_input: more than 5 words is no single ingredient
MAX_INGREDIENT_WORDS == 5

\* Faulty variant of _is_valid_ingredient_input: the word-count test is missing
_is_valid_ingredient_input_no_length(s) ==
    LET words == Words(Lower(s))
        n == Len(words)
        has_verb == \E i \in 1..n : WordIn(words[i], _SENTENCE_VERBS)
        has_diet == \E i \in 1..n : WordIn(words[i], _DIET_WORDS)
        stopword_count ==
            Cardinality({ i \in 1..n : WordIn(words[i], _SENTENCE_VERBS \cup STOP_WORDS) })
    IN  /\ Strip(s) # <<>>
        /\ ~(has_verb /\ has_diet)
        /\ ~(n > 2 /\ 2 * stopword_count > n)

\* ingredient_registry._is_valid_ingredient_input
_is_valid_ingredient_input(s) ==
    LET words == Words(Lower(s))
        n == Len(words)
        has_verb == \E i \in 1..n : WordIn(words[i], _SENTENCE_VERBS)
        has_diet == \E i \in 1..n : WordIn(words[i], _DIET_WORDS)
        stopword_count ==
            Cardinality({ i \in 1..n : WordIn(words[i], _SENTENCE_VERBS \cup STOP_WORDS) })
    IN  /\ Strip(s) # <<>>
        /\ ~(n > MAX_INGREDIENT_WORDS)
        /\ ~(has_verb /\ has_diet)
        /\ ~(n > 2 /\ 2 * stopword_count > n)

\* The state a registry works on: its index, the dynamic ontology file, the
\* API cache and the unknown log.
MkReg(index, file, cache, log) ==
    [ by_key |-> index, dyn_file |-> file, api_cache |-> cache, unknown_log |-> log ]

MkOutcome(ing, source, level, reg, requests, raised) ==
    [ ing |-> ing, source |-> source, level |-> level, reg |-> reg,
      requests |-> requests, raised |-> raised ]

\* resolve_with_fallback, lines 181-204: what is done with the result f of the
\* fetcher.  raised: the call ended in the OSError of DynamicOntology._save
\* (the file cannot be opened for writing).
use_api_result(reg, log1, f, world) ==
    LET result == f.result
        reg2 == MkReg(reg.by_key, reg.dyn_file, f.cache, log1)
    IN  IF IsNone(result.ingredient)
        THEN MkOutcome(NoIngredient, "api", "low", reg2, f.requests, FALSE)
        ELSE IF result.confidence = "high"
        THEN IF DynAppendWrites(reg.dyn_file, result.ingredient) /\ ~world.dyn_writable
             THEN MkOutcome(NoIngredient, "api", "low", reg2, f.requests, TRUE)
             ELSE MkOutcome(result.ingredient, "api", "high",
                            MkReg(add_ingredient(reg.by_key, result.ingredient),
                                  DynAppend(reg.dyn_file, result.ingredient,
                                            result.source, result.confidence),
                                  f.cache, log1),
                            f.requests, FALSE)
        ELSE IF result.confidence = "medium"
        THEN MkOutcome(result.ingredient, "api", "medium", reg2, f.requests, FALSE)
        ELSE MkOutcome(NoIngredient, "api", "low", reg2, f.requests, FALSE)

\* resolve_with_fallback, lines 175-204: after the unknown log, whose entries
\* are now log1
resolve_unknown(reg, key, try_api, log1, world) ==
    IF ~try_api
    THEN MkOutcome(NoIngredient, "static", "low",
                   MkReg(reg.by_key, reg.dyn_file, reg.api_cache, log1), 0, FALSE)
    ELSE use_api_result(reg, log1,
                        fetch_ingredient_from_apis(reg.api_cache, key, TRUE, world), world)

\* resolve_with_fallback, lines 150-173: hit is the outcome of resolve_with_source
resolve_miss(reg, ingredient_str, key, hit, try_api, log_unknown, restriction_ids, world) ==
    IF ~IsNone(hit.ing) THEN MkOutcome(hit.ing, hit.source, "high", reg, 0, FALSE)
    ELSE IF ~_is_valid_ingredient_input(key)
    THEN MkOutcome(NoIngredient, "static", "low", reg, 0, FALSE)
    ELSE resolve_unknown(reg, key, try_api,
                         IF log_unknown
                         THEN record(reg.unknown_log, ingredient_str, key, restriction_ids)
                         ELSE reg.unknown_log,
                         world)

\* IngredientRegistry.resolve_with_fallback
resolve_with_fallback(reg, ingredient_str, try_api, log_unknown, restriction_ids, world) ==
    resolve_miss(reg, ingredient_str, NormalizeKey(ingredient_str),
                 resolve_with_source(reg.by_key, ingredient_str),
                 try_api, log_unknown, restriction_ids, world)


(***************************************************************************)
(* Confidence (evaluation/confidence.py)                                   *)
(* Scores are exact fractions num / (20 * total) until the final rounding: *)
(* the level weights 1.0, 0.7, 0.35 are 20, 14, 7 twentieths, the          *)
(* penalties 0.1 and 0.05 are 2 and 1 twentieths.                          *)
(***************************************************************************)
\* Faulty variant of level_scores: medium written 7.0 for 0.7
LevelScore_medium_typo(l) ==
    CASE l = "high" -> 20
      [] l = "medium" -> 140
      [] l = "api_failed" -> 7
      [] OTHER -> 0

\* compute_confidence: level_scores, in twentieths
LevelScore(l) ==
    CASE l = "high" -> 20
      [] l = "medium" -> 14
      [] l = "api_failed" -> 7
      [] OTHER -> 0

RECURSIVE SumLevels(_)
SumLevels(levels) ==
    IF levels = <<>> THEN 0 ELSE LevelScore(Head(levels)) + SumLevels(Tail(levels))

Max(a, b) == IF a >= b THEN a ELSE b
Min(a, b) == IF a <= b THEN a ELSE b

\* round(num / den, 4), as a count of ten-thousandths.  No tie occurs for
\* den = 20 * total with total < 8.
Round4(num, den) == (2 * 10000 * num + den) \div (2 * den)

\* the uncertainty penalty 0.1 and the conditional penalty 0.05, in twentieths
UNCERTAINTY_PENALTY == 2
CONDITIONAL_PENALTY == 1
\* the ceiling 0.4 and the band 0.2 .. 0.5, in twentieths
API_FAILED_CEILING == 8
MINOR_FLOOR == 4
MINOR_CEILING == 10

\* confidence.compute_confidence; levels_given is "resolution_levels is not None"
compute_confidence(total_ingredients, resolved_count, uncertain_count, warning_count, levels_given, resolution_levels, triggered_only_by_minor, has_minor_ingredients, status) ==
    IF total_ingredients <= 0 THEN 0
    ELSE
    LET use_levels == levels_given /\ Len(resolution_levels) = total_ingredients
        den == 20 * total_ingredients
        effective == IF use_levels THEN SumLevels(resolution_levels) ELSE 20 * resolved_count
        has_api_failed == use_levels /\ InSeq("api_failed", resolution_levels)
        base0 == Max(0, effective
                        - UNCERTAINTY_PENALTY * uncertain_count * total_ingredients
                        - CONDITIONAL_PENALTY * warning_count * total_ingredients)
        base == IF has_api_failed THEN Min(API_FAILED_CEILING * total_ingredients, base0)
                ELSE base0
    IN  IF triggered_only_by_minor /\ status = "NOT_SAFE"
        THEN Round4(Min(MINOR_CEILING * total_ingredients,
                        Max(MINOR_FLOOR * total_ingredients, base)), den)
        ELSE IF has_minor_ingredients /\ status = "SAFE"
        THEN Round4(Max(MINOR_FLOOR * total_ingredients, base), den)
        ELSE Round4(base, den)

(***************************************************************************)
(* Compliance engine (evaluation/compliance_engine.py)                     *)
(***************************************************************************)
\* list(dict.fromkeys(xs)): first occurrences, in order
RECURSIVE DedupeFrom(_, _)
DedupeFrom(xs, seen) ==
    IF xs = <<>> THEN seen
    ELSE DedupeFrom(Tail(xs), IF InSeq(Head(xs), seen) THEN seen ELSE Append(seen, Head(xs)))

\* Faulty variant of the dedupe step: the lists are returned as collected
Dedupe_keep_all(xs) == xs

Dedupe(xs) == DedupeFrom(xs, <<>>)

\* Faulty variant of the bookkeeping: an unresolved trace ingredient is listed
\* as uncertain as well
Bookkeep_trace_uncertain(acc, raw, is_trace, ing, source, level, reg, raised, requests) ==
    [ reg |-> reg,
      raised |-> raised,
      resolved |-> IF IsNone(ing) THEN acc.resolved ELSE Append(acc.resolved, ing),
      resolved_is_trace |-> IF IsNone(ing) THEN acc.resolved_is_trace
                            ELSE Append(acc.resolved_is_trace, is_trace),
      uncertain_raw |-> IF IsNone(ing) THEN Append(acc.uncertain_raw, raw)
                        ELSE acc.uncertain_raw,
      informational_raw |-> IF is_trace THEN Append(acc.informational_raw, raw)
                            ELSE acc.informational_raw,
      resolution_levels |-> Append(acc.resolution_levels, level),
      calls |-> Append(acc.calls,
                       [ raw |-> raw, is_trace |-> is_trace, ing |-> ing,
                         source |-> source, level |-> level, requests |-> requests ]) ]

\* evaluate, lines 79-107 and 110-130: the bookkeeping of one lookup that ended
\* with ing at the given level
Bookkeep(acc, raw, is_trace, ing, source, level, reg, raised, requests) ==
    [ reg |-> reg,
      raised |-> raised,
      resolved |-> IF IsNone(ing) THEN acc.resolved ELSE Append(acc.resolved, ing),
      resolved_is_trace |-> IF IsNone(ing) THEN acc.resolved_is_trace
                            ELSE Append(acc.resolved_is_trace, is_trace),
      uncertain_raw |-> IF IsNone(ing) /\ ~is_trace
                        THEN Append(acc.uncertain_raw, raw)
                        ELSE acc.uncertain_raw,
      informational_raw |-> IF is_trace THEN Append(acc.informational_raw, raw)
                            ELSE acc.informational_raw,
      resolution_levels |-> Append(acc.resolution_levels, level),
      calls |-> Append(acc.calls,
                       [ raw |-> raw, is_trace |-> is_trace, ing |-> ing,
                         source |-> source, level |-> level, requests |-> requests ]) ]

\* evaluate, lines 72-107: the branch with the API fallback, o being the
\* outcome of resolve_with_fallback
WithFallback(acc, raw, is_trace, o) ==
    Bookkeep(acc, raw, is_trace, o.ing, o.source,
             IF ~IsNone(o.ing) THEN o.level
             ELSE IF is_trace THEN "high"
             ELSE IF o.source = "api" THEN "api_failed"
             ELSE "low",
             o.reg, o.raised, o.requests)

\* evaluate, lines 109-130: the branch without it, ing being the outcome of resolve
WithoutFallback(acc, raw, is_trace, ing) ==
    Bookkeep(acc, raw, is_trace, ing, "registry",
             IF ~IsNone(ing) \/ is_trace THEN "high" ELSE "low",
             acc.reg, FALSE, 0)

\* ComplianceEngine.evaluate, lines 65-130: one pass of the resolution loop
ResolveOne(acc, raw, req, world) ==
    IF EngineKey(raw) = <<>> \/ acc.raised THEN acc
    ELSE IF req.use_api_fallback
    THEN WithFallback(acc, raw, EngineKey(raw) \in req.trace_ingredient_keys,
                      resolve_with_fallback(acc.reg, raw, TRUE,
                                            EngineKey(raw) \notin req.trace_ingredient_keys,
                                            req.restriction_ids, world))
    ELSE WithoutFallback(acc, raw, EngineKey(raw) \in req.trace_ingredient_keys,
                         resolve(acc.reg.by_key, raw))

RECURSIVE ResolveLoop(_, _, _, _)
ResolveLoop(acc, raws, req, world) ==
    IF raws = <<>> THEN acc
    ELSE ResolveLoop(ResolveOne(acc, Head(raws), req, world), Tail(raws), req, world)

\* evaluate, lines 145-152: the restriction ids that are evaluated
RECURSIVE FilterIds(_, _, _)
FilterIds(registry, rids, region_scope) ==
    IF rids = <<>> THEN <<>>
    ELSE LET rid == Head(rids)
             keep == /\ HasRestriction(registry, rid)
                     /\ (region_scope = ""
                           \/ region_scope \in registry.by_id[rid].region_scope)
         IN  (IF keep THEN <<rid>> ELSE <<>>) \o FilterIds(registry, Tail(rids), region_scope)

SelectedIds(registry, req) ==
    FilterIds(registry,
              IF req.has_restriction_ids THEN req.restriction_ids ELSE list_ids(registry),
              req.region_scope)

\* Faulty variant of lines 165-173: a WARN result is recorded as a trigger too
Trigger_warn_as_fail(t, restriction_id, rest, ing, minor) ==
    LET result == RestrictionEvaluate(ing, rest)
    IN  IF result \in {"FAIL", "WARN"}
        THEN [ t EXCEPT
                 !.triggered_restrictions = Append(@, restriction_id),
                 !.triggered_ingredients = Append(@, ing.canonical_name),
                 !.triggered_restrictions_from_minor =
                     IF minor THEN @ \cup {restriction_id} ELSE @,
                 !.triggered_ingredients_from_minor =
                     IF minor THEN @ \cup {ing.canonical_name} ELSE @ ]
        ELSE t

\* evaluate, lines 165-173: what one (restriction, ingredient) result adds to
\* the trigger lists and the warning count
Trigger(t, restriction_id, rest, ing, minor) ==
    LET result == RestrictionEvaluate(ing, rest)
    IN  IF result = "FAIL"
        THEN [ t EXCEPT
                 !.triggered_restrictions = Append(@, restriction_id),
                 !.triggered_ingredients = Append(@, ing.canonical_name),
                 !.triggered_restrictions_from_minor =
                     IF minor THEN @ \cup {restriction_id} ELSE @,
                 !.triggered_ingredients_from_minor =
                     IF minor THEN @ \cup {ing.canonical_name} ELSE @ ]
        ELSE IF result = "WARN"
        THEN [ t EXCEPT !.warning_count = @ + 1 ]
        ELSE t

\* evaluate, lines 164-173: one restriction against every resolved ingredient
RECURSIVE IngredientLoop(_, _, _, _, _, _)
IngredientLoop(t, restriction_id, rest, resolved, resolved_is_trace, idx) ==
    IF idx > Len(resolved) THEN t
    ELSE IngredientLoop(Trigger(t, restriction_id, rest, resolved[idx],
                                idx <= Len(resolved_is_trace) /\ resolved_is_trace[idx]),
                        restriction_id, rest, resolved, resolved_is_trace, idx + 1)

\* evaluate, lines 160-173: rest is self._restrictions.get(restriction_id)
RECURSIVE RestrictionLoop(_, _, _, _, _)
RestrictionLoop(t, registry, rest_ids, resolved, resolved_is_trace) ==
    IF rest_ids = <<>> THEN t
    ELSE RestrictionLoop(IF HasRestriction(registry, Head(rest_ids))
                         THEN IngredientLoop(t, Head(rest_ids), registry.by_id[Head(rest_ids)],
                                             resolved, resolved_is_trace, 1)
                         ELSE t,
                         registry, Tail(rest_ids), resolved, resolved_is_trace)

NoTriggers ==
    [ triggered_restrictions |-> <<>>, triggered_ingredients |-> <<>>,
      triggered_restrictions_from_minor |-> {}, triggered_ingredients_from_minor |-> {},
      warning_count |-> 0 ]

SeqToSet(s) == { s[i] : i \in 1..Len(s) }

MkVerdict(status, tr, ti, unc, info, conf) ==
    [ status |-> status, triggered_restrictions |-> tr, triggered_ingredients |-> ti,
      uncertain_ingredients |-> unc, informational_ingredients |-> info,
      confidence_score |-> conf ]

\* Faulty variant of lines 178-183: the uncertain branch is tested first
StatusOf_uncertain_first(triggered_restrictions, uncertain_raw) ==
    IF uncertain_raw # <<>> THEN "UNCERTAIN"
    ELSE IF triggered_restrictions # <<>> THEN "NOT_SAFE"
    ELSE "SAFE"

\* Faulty variant of lines 178-183: the uncertain branch is missing
StatusOf_ignores_uncertain(triggered_restrictions, uncertain_raw) ==
    IF triggered_restrictions # <<>> THEN "NOT_SAFE" ELSE "SAFE"

\* evaluate, lines 178-183
StatusOf(triggered_restrictions, uncertain_raw) ==
    IF triggered_restrictions # <<>> THEN "NOT_SAFE"
    ELSE IF uncertain_raw # <<>> THEN "UNCERTAIN"
    ELSE "SAFE"

\* Faulty variant of lines 186-189: compared with the set of ingredient names
TriggeredOnlyByMinor_ingredient_set(triggered_restrictions, found) ==
    /\ triggered_restrictions # <<>>
    /\ SeqToSet(triggered_restrictions) \subseteq found.triggered_ingredients_from_minor

\* evaluate, lines 186-189
TriggeredOnlyByMinor(triggered_restrictions, found) ==
    /\ triggered_restrictions # <<>>
    /\ SeqToSet(triggered_restrictions) \subseteq found.triggered_restrictions_from_minor

\* evaluate, lines 175-211: the verdict from what the two loops have collected
conclude(req, acc, rest_ids, found) ==
    LET triggered_restrictions == Dedupe(found.triggered_restrictions)
        triggered_ingredients == Dedupe(found.triggered_ingredients)
        status == StatusOf(triggered_restrictions, acc.uncertain_raw)
        triggered_only_by_minor ==
            TriggeredOnlyByMinor(triggered_restrictions, found)
        confidence ==
            compute_confidence(Len(req.ingredient_strings), Len(acc.resolved),
                               Len(acc.uncertain_raw), found.warning_count,
                               Len(acc.resolution_levels) = Len(req.ingredient_strings),
                               acc.resolution_levels,
                               triggered_only_by_minor, acc.informational_raw # <<>>, status)
    IN  [ verdict |-> MkVerdict(status, triggered_restrictions, triggered_ingredients,
                                acc.uncertain_raw, acc.informational_raw, confidence),
          reg |-> acc.reg, raised |-> acc.raised, early |-> FALSE,
          calls |-> acc.calls, resolved |-> acc.resolved,
          resolved_is_trace |-> acc.resolved_is_trace,
          resolution_levels |-> acc.resolution_levels, rest_ids |-> rest_ids,
          found |-> found, triggered_only_by_minor |-> triggered_only_by_minor ]

\* evaluate, lines 145-211: acc is what the resolution loop has collected
check_restrictions(registry, req, acc) ==
    conclude(req, acc, SelectedIds(registry, req),
             RestrictionLoop(NoTriggers, registry, SelectedIds(registry, req),
                             acc.resolved, acc.resolved_is_trace))

\* ComplianceEngine.evaluate.  Yields the verdict, the registry state afterwards,
\* whether the call raised instead of returning, and the locals at the return.
evaluate(reg, registry, req, world) ==
    IF req.ingredient_strings = <<>>
    THEN [ verdict |-> MkVerdict("UNCERTAIN", <<>>, <<>>, <<>>, <<>>, 0),
           reg |-> reg, raised |-> FALSE, early |-> TRUE,
           calls |-> <<>>, resolved |-> <<>>, resolved_is_trace |-> <<>>,
           resolution_levels |-> <<>>, rest_ids |-> <<>>, found |-> NoTriggers,
           triggered_only_by_minor |-> FALSE ]
    ELSE check_restrictions(registry, req,
             ResolveLoop([ reg |-> reg, raised |-> FALSE, resolved |-> <<>>,
                           resolved_is_trace |-> <<>>, uncertain_raw |-> <<>>,
                           informational_raw |-> <<>>, resolution_levels |-> <<>>,
                           calls |-> <<>> ],
                         req.ingredient_strings, req, world))


(***************************************************************************)
(* HTTP GET with retries (external_apis/http_retry.py)                     *)
(* Delays are in seconds.                                                  *)
(***************************************************************************)
DEFAULT_MAX_RETRIES == 3
DEFAULT_INITIAL_BACKOFF == 1

\* what requests.get does in one try: it returns a response or raises a
\* requests.RequestException (Timeout and ConnectionError are two of its
\* subclasses, TooManyRedirects is a third)
GetOutcomes == { "response", "Timeout", "ConnectionError", "TooManyRedirects" }

\* get_with_retries, lines 27-28: the locals at the start of the loop
StartGet(max_retries, initial_backoff) ==
    [ max_retries |-> max_retries, initial_backoff |-> initial_backoff,
      attempt |-> 0, last_error |-> "None", warned |-> <<>>, slept |-> <<>>,
      status |-> "calling", resp |-> "None", err |-> "None" ]

NoHttp == [ StartGet(0, 0) EXCEPT !.status = "idle" ]

\* Faulty variant of line 45: the function sleeps after the last try as well
ShouldSleep_after_last(attempt, max_retries) == attempt < max_retries

\* get_with_retries, line 45
ShouldSleep(attempt, max_retries) == attempt < max_retries - 1

\* get_with_retries, line 46
Backoff(initial_backoff, attempt) == initial_backoff * (2 ^ attempt)

\* get_with_retries, lines 30-48: one pass of the loop, requests.get ending
\* as outcome says
get_attempt(h, outcome) ==
    IF outcome = "response"
    THEN [ h EXCEPT !.status = "returned", !.resp = "response", !.err = "None" ]
    ELSE [ h EXCEPT
             !.last_error = outcome,
             !.warned = Append(@, outcome),
             !.slept = IF ShouldSleep(h.attempt, h.max_retries)
                       THEN Append(@, Backoff(h.initial_backoff, h.attempt))
                       ELSE @,
             !.attempt = @ + 1 ]

\* get_with_retries, line 49: the loop is over
get_exhausted(h) ==
    [ h EXCEPT !.status = "returned", !.resp = "None", !.err = h.last_error ]

(***************************************************************************)
(* User profiles: models/user_profile.py and profile_storage.py.           *)
(* A string is a sequence of tokens, a list a sequence of strings; None    *)
(* (a null, or a key that the stored record does not have) is one value    *)
(* that is neither.                                                        *)
(***************************************************************************)
None == <<"<None>">>

\* Python's `v or []`
OrEmpty(v) == IF v = None THEN <<>> ELSE v

NO_RULES == <<"No", " ", "rules">>

ProfileFields == { "dietary_preference", "allergens", "lifestyle", "religious_preferences" }

MkProfile(user_id, dietary_preference, allergens, lifestyle, religious_preferences) ==
    [ user_id |-> user_id, dietary_preference |-> dietary_preference,
      allergens |-> allergens, lifestyle |-> lifestyle,
      religious_preferences |-> religious_preferences ]

\* UserProfile(user_id=user_id): the dataclass defaults
UserProfile(user_id) == MkProfile(user_id, NO_RULES, <<>>, <<>>, <<>>)

\* one user's record in profiles.json, with the legacy keys from_dict reads
MkStored(dietary_preference, allergens, lifestyle, religious_preferences, dietary_restrictions, allergies, lifestyle_flags) ==
    [ dietary_preference |-> dietary_preference, allergens |-> allergens,
      lifestyle |-> lifestyle, religious_preferences |-> religious_preferences,
      dietary_restrictions |-> dietary_restrictions, allergies |-> allergies,
      lifestyle_flags |-> lifestyle_flags ]

\* the dietary preference from_dict infers when the record has none
LegacyDietary(data) ==
    LET combined == OrEmpty(data.dietary_restrictions) \o OrEmpty(data.religious_preferences)
    IN  IF combined # <<>> THEN << combined[1] >> ELSE NO_RULES

\* dietary.strip() or "No rules"
StripOrNoRules(dietary) == IF Strip(dietary) = <<>> THEN NO_RULES ELSE Strip(dietary)

\* UserProfile.from_dict
from_dict(user_id, data) ==
    MkProfile(user_id,
              StripOrNoRules(IF data.dietary_preference = None THEN LegacyDietary(data)
                             ELSE data.dietary_preference),
              IF data.allergens = None THEN OrEmpty(data.allergies) ELSE data.allergens,
              IF data.lifestyle = None THEN OrEmpty(data.lifestyle_flags) ELSE data.lifestyle,
              OrEmpty(data.religious_preferences))

\* Faulty variant of update_merge: a field that is not provided is reset
update_merge_replaces(profile, dietary_preference, allergens, lifestyle, religious_preferences) ==
    MkProfile(profile.user_id,
              IF dietary_preference # None THEN dietary_preference ELSE NO_RULES,
              OrEmpty(allergens), OrEmpty(lifestyle), OrEmpty(religious_preferences))

\* UserProfile.update_merge
update_merge(profile, dietary_preference, allergens, lifestyle, religious_preferences) ==
    MkProfile(profile.user_id,
              IF dietary_preference # None THEN dietary_preference
              ELSE profile.dietary_preference,
              IF allergens # None THEN allergens ELSE profile.allergens,
              IF lifestyle # None THEN lifestyle ELSE profile.lifestyle,
              IF religious_preferences # None THEN religious_preferences
              ELSE profile.religious_preferences)

\* profile_storage.get_profile, followed by the caller's
\* `if profile is None: profile = UserProfile(user_id=user_id)`
get_or_create_profile(stored, user_id) ==
    IF user_id \in DOMAIN stored THEN from_dict(user_id, stored[user_id])
    ELSE UserProfile(user_id)

\* profile_storage.save_profile: the user's record is replaced by the four fields
save_profile(stored, profile) ==
    [ k \in (DOMAIN stored) \cup { profile.user_id } |->
        IF k = profile.user_id
        THEN MkStored(profile.dietary_preference, profile.allergens, profile.lifestyle,
                      profile.religious_preferences, None, None, None)
        ELSE stored[k] ]

\* the `updates` of update_profile_partial are empty: every known keyword is None
\* (a keyword of another name, kwargs.other, is dropped by the filter)
NoUpdates(kwargs) == \A f \in ProfileFields : kwargs[f] = None

\* update_profile_partial, from the loaded profile on
merge_and_save(stored, profile, kwargs) ==
    IF NoUpdates(kwargs) THEN [ profile |-> profile, stored |-> stored ]
    ELSE \* one merged value, handed on to save and to the caller
         LET merged == update_merge(profile, kwargs.dietary_preference, kwargs.allergens,
                                    kwargs.lifestyle, kwargs.religious_preferences)
         IN  [ profile |-> merged, stored |-> save_profile(stored, merged) ]

\* profile_storage.update_profile_partial
update_profile_partial(stored, user_id, kwargs) ==
    merge_and_save(stored, get_or_create_profile(stored, user_id), kwargs)

(***************************************************************************)
(* Flattening (normalization/parser.py).  A text is a sequence of tokens:  *)
(* words, " ", ",", "(" and ")"; each separator is one character.          *)
(***************************************************************************)
\* parser.PROCESSED_FOOD_TO_BASE, the entries whose keys occur in the universe
PROCESSED_FOOD_TO_BASE ==
    ( <<"bread">> :> << <<"wheat", " ", "flour">>, <<"water">>, <<"salt">>, <<"yeast">> >> ) @@
    ( <<"soy", " ", "sauce">> :> << <<"soybean">>, <<"wheat">>, <<"salt">>, <<"water">> >> ) @@
    ( <<"teriyaki", " ", "sauce">> :>
        << <<"soy", " ", "sauce">>, <<"sugar">>, <<"ginger">>, <<"garlic">> >> )

\* the lookahead of r",(?![^(]*\))": after position i comes a ")" with no "("
\* before it
ClosesAfter(text, i) ==
    \E j \in (i + 1)..Len(text) :
        /\ text[j] = ")"
        /\ \A k \in (i + 1)..(j - 1) : text[k] # "("

\* re.split on the commas of text from position i on; cur is the piece being
\* read; with top, only the commas that the lookahead does not exclude split
RECURSIVE SplitCommasFrom(_, _, _, _)
SplitCommasFrom(text, i, cur, top) ==
    IF i > Len(text) THEN << cur >>
    ELSE IF text[i] = "," /\ (~top \/ ~ClosesAfter(text, i))
    THEN << cur >> \o SplitCommasFrom(text, i + 1, <<>>, top)
    ELSE SplitCommasFrom(text, i + 1, Append(cur, text[i]), top)

\* text[start:i].strip() appended to out unless it is empty
AppendChunk(out, text, start, i) ==
    IF Strip(SubSeq(text, start + 1, i)) # <<>>
    THEN Append(out, Strip(SubSeq(text, start + 1, i)))
    ELSE out

RECURSIVE ScanParentheses(_, _, _, _, _)
RECURSIVE SplitInner(_)
RECURSIVE _split_by_parentheses(_)

\* parser._split_by_parentheses, lines 81-108: the loop at index i (from 0)
ScanParentheses(text, i, depth, start, out) ==
    IF i >= Len(text)
    THEN IF depth = 0 /\ start < Len(text) THEN AppendChunk(out, text, start, Len(text))
         ELSE out
    ELSE IF text[i + 1] = "("
    THEN ScanParentheses(text, i + 1, depth + 1, IF depth + 1 = 1 THEN i + 1 ELSE start,
                         IF depth = 0 /\ i > start THEN AppendChunk(out, text, start, i)
                         ELSE out)
    ELSE IF text[i + 1] = ")"
    THEN IF depth - 1 = 0
         THEN ScanParentheses(text, i + 1, 0, i + 1,
                              out \o SplitInner(SplitCommasFrom(Strip(SubSeq(text, start + 1, i)),
                                                                1, <<>>, FALSE)))
         ELSE ScanParentheses(text, i + 1, depth - 1, start, out)
    ELSE ScanParentheses(text, i + 1, depth, start, out)

\* lines 95-99: each part between the commas of a parenthesis is split in turn
SplitInner(parts) ==
    IF parts = <<>> THEN <<>>
    ELSE _split_by_parentheses(Strip(Head(parts))) \o SplitInner(Tail(parts))

\* parser._split_by_parentheses
_split_by_parentheses(text) ==
    IF Strip(text) = <<>> THEN <<>> ELSE ScanParentheses(text, 0, 0, 0, <<>>)

\* flatten_ingredients, lines 143-152: the atoms of the parts of one segment
RECURSIVE FlattenParts(_)
FlattenParts(parts) ==
    IF parts = <<>> THEN <<>>
    ELSE (IF normalize_ingredient_key(Strip(Head(parts))) \in DOMAIN PROCESSED_FOOD_TO_BASE
          THEN PROCESSED_FOOD_TO_BASE[normalize_ingredient_key(Strip(Head(parts)))]
          ELSE IF normalize_ingredient_key(Strip(Head(parts))) # <<>>
          THEN << normalize_ingredient_key(Strip(Head(parts))) >>
          ELSE <<>>)
         \o FlattenParts(Tail(parts))

\* flatten_ingredients, lines 138-152: the loop over the segments
RECURSIVE FlattenSegments(_)
FlattenSegments(segments) ==
    IF segments = <<>> THEN <<>>
    ELSE FlattenParts(_split_by_parentheses(Strip(Head(segments))))
         \o FlattenSegments(Tail(segments))

\* parser.flatten_ingredients
flatten_ingredients(raw_str) ==
    IF Strip(raw_str) = <<>> THEN <<>>
    ELSE IF normalize_ingredient_key(Strip(raw_str)) \in DOMAIN PROCESSED_FOOD_TO_BASE
    THEN PROCESSED_FOOD_TO_BASE[normalize_ingredient_key(Strip(raw_str))]
    ELSE Dedupe(FlattenSegments(SplitCommasFrom(Strip(raw_str), 1, <<>>, TRUE)))

\* flatten_ingredients applied to each atom of a list, the results joined
RECURSIVE FlattenEach(_)
FlattenEach(atoms) ==
    IF atoms = <<>> THEN <<>>
    ELSE flatten_ingredients(Head(atoms)) \o FlattenEach(Tail(atoms))


(***************************************************************************)
(* Trace detection (parsing/ingredient_parser.py).  The texts are token    *)
(* sequences as above; the phrase "less than 2% of:" is one token.         *)
(* ingredient_parser._split_by_parentheses is the same code as             *)
(* parser._split_by_parentheses.                                           *)
(***************************************************************************)
\* the marker phrase: TRACE_PATTERNS[0] matches it
TRACE_MARK == "less than 2% of:"

\* ingredient_parser._is_trace_section
_is_trace_section(text) == InSeq(TRACE_MARK, text)

\* re.sub(r"\s*less than 2%?\s*of\s*:?\s*", " ", t)
RECURSIVE SubMarkers(_)
SubMarkers(text) ==
    IF text = <<>> THEN <<>>
    ELSE IF LStrip(text) # <<>> /\ Head(LStrip(text)) = TRACE_MARK
    THEN <<" ">> \o SubMarkers(LStrip(Tail(LStrip(text))))
    ELSE << Head(text) >> \o SubMarkers(Tail(text))

\* ingredient_parser._strip_trace_markers; the other substitutions match
\* nothing in a text of these tokens
_strip_trace_markers(text) == Strip(SubMarkers(text))

\* preprocess_ingredients, lines 112-118: the parts of each segment, none for a
\* blank segment
RECURSIVE SegmentParts(_)
SegmentParts(segments) ==
    IF segments = <<>> THEN <<>>
    ELSE << IF Strip(Head(segments)) = <<>> THEN <<>>
            ELSE _split_by_parentheses(Strip(Head(segments))) >>
         \o SegmentParts(Tail(segments))

RECURSIVE Concat(_)
Concat(lists) == IF lists = <<>> THEN <<>> ELSE Head(lists) \o Concat(Tail(lists))

\* preprocess_ingredients, lines 123-133: the loop over raw_flat from index i;
\* a mark records what the loop computed for one part, kept being FALSE when
\* the loop left the part with continue
RECURSIVE MarkLoop(_, _, _)
MarkLoop(raw_flat, i, trace_until_end) ==
    IF i > Len(raw_flat) THEN <<>>
    ELSE IF _strip_trace_markers(raw_flat[i]) = <<>>
    THEN << [ part |-> raw_flat[i], kept |-> FALSE, key |-> <<>>, trace |-> FALSE ] >>
         \o MarkLoop(raw_flat, i + 1, trace_until_end)
    ELSE << [ part |-> raw_flat[i],
              kept |-> normalize_ingredient_key(_strip_trace_markers(raw_flat[i])) # <<>>,
              key |-> normalize_ingredient_key(_strip_trace_markers(raw_flat[i])),
              trace |-> trace_until_end \/ _is_trace_section(raw_flat[i]) ] >>
         \o MarkLoop(raw_flat, i + 1, trace_until_end \/ _is_trace_section(raw_flat[i]))

\* preprocess_ingredients, lines 134-137: result_by_key in insertion order
RECURSIVE CollectByKey(_, _)
CollectByKey(marks, result) ==
    IF marks = <<>> THEN result
    ELSE IF ~Head(marks).kept THEN CollectByKey(Tail(marks), result)
    ELSE IF \E j \in 1..Len(result) : result[j].name = Head(marks).key
    THEN CollectByKey(Tail(marks),
                      [ j \in 1..Len(result) |->
                          IF result[j].name = Head(marks).key
                          THEN [ result[j] EXCEPT !.trace = @ \/ Head(marks).trace ]
                          ELSE result[j] ])
    ELSE CollectByKey(Tail(marks),
                      Append(result, [ name |-> Head(marks).key, trace |-> Head(marks).trace ]))

\* the locals of preprocess_ingredients at its return
Preprocessed(raw_str, seg_parts, marks) ==
    [ n |-> 1, raw_str |-> raw_str, seg_parts |-> seg_parts, marks |-> marks,
      result |-> CollectByKey(marks, <<>>) ]

\* ingredient_parser.preprocess_ingredients, with its locals
preprocess(raw_str) ==
    IF raw_str = <<>> THEN Preprocessed(raw_str, <<>>, <<>>)
    ELSE LET seg_parts == SegmentParts(SplitCommasFrom(raw_str, 1, <<>>, TRUE))
         IN  Preprocessed(raw_str, seg_parts, MarkLoop(Concat(seg_parts), 1, FALSE))

\* ingredient_parser.preprocess_ingredients
preprocess_ingredients(raw_str) == preprocess(raw_str).result


(***************************************************************************)
(* Intent detection (intent_detector.py).  A query is a sequence of words  *)
(* and commas, written with one space between two words and after a comma  *)
(* and none before a comma.  The words of the universe are "can", "is",    *)
(* "eat", "check", "milk", "jain" and "Halal": the patterns for greetings, *)
(* allergens, lifestyle, general questions, trailing diet questions and    *)
(* first-person sentences need words outside it and match no query.        *)
(***************************************************************************)
\* intent_detector.DIET_KEYWORDS, the entries whose keys occur in the universe
DIET_KEYWORDS == ( <<"jain">> :> "Jain" ) @@ ( <<"halal">> :> "Halal" )

\* intent_detector._DIET_NAMES_LOWER
_DIET_NAMES_LOWER == DOMAIN DIET_KEYWORDS

\* the word matches _DIET_REGEX under re.IGNORECASE
IsDietWord(tok) == << LowerTok(tok) >> \in DOMAIN DIET_KEYWORDS

\* _split_ingredients, lines 314-346: the loop over the chunks between the
\* commas; no chunk holds "with" or consists of stopwords
RECURSIVE SplitChunks(_, _)
SplitChunks(chunks, result) ==
    IF chunks = <<>> THEN result
    ELSE IF Head(chunks) = <<>>
            \/ \E j \in 1..Len(result) : Lower(result[j]) = Lower(Head(chunks))
    THEN SplitChunks(Tail(chunks), result)
    ELSE SplitChunks(Tail(chunks), Append(result, Head(chunks)))

\* intent_detector._split_ingredients
_split_ingredients(text) == SplitChunks(SplitCommasFrom(text, 1, <<>>, FALSE), <<>>)

\* _THIRD_PERSON_PATTERNS[0].search: "can <diet> eat <rest>", the places of "can"
CanDietEatAt(query) ==
    { i \in 1..Len(query) :
        /\ i + 3 <= Len(query)
        /\ query[i] = "can"
        /\ IsDietWord(query[i + 1])
        /\ query[i + 2] = "eat"
        /\ query[i + 3] # "," }

\* _THIRD_PERSON_PATTERNS[2].search: "is <rest> <diet>" up to the end of the
\* query, the places of "is"
IsRestDietAt(query) ==
    { i \in 1..Len(query) :
        /\ i + 2 <= Len(query)
        /\ query[i] = "is"
        /\ query[i + 1] # ","
        /\ query[Len(query)] # ","
        /\ IsDietWord(query[Len(query)]) }

Leftmost(S) == CHOOSE i \in S : \A j \in S : i <= j

NoMatch == [ found |-> FALSE, diet |-> "", ings |-> <<>> ]

\* detect_intent, lines 452-470: the loop over the third-person patterns; a
\* pattern whose ingredient part splits into nothing is passed over
third_person(query) ==
    IF CanDietEatAt(query) # {}
       /\ _split_ingredients(SubSeq(query, Leftmost(CanDietEatAt(query)) + 3, Len(query))) # <<>>
    THEN [ found |-> TRUE,
           diet |-> DIET_KEYWORDS[<< LowerTok(query[Leftmost(CanDietEatAt(query)) + 1]) >>],
           ings |-> _split_ingredients(SubSeq(query, Leftmost(CanDietEatAt(query)) + 3,
                                               Len(query))) ]
    ELSE IF IsRestDietAt(query) # {}
            /\ _split_ingredients(SubSeq(query, Leftmost(IsRestDietAt(query)) + 1,
                                         Len(query) - 1)) # <<>>
    THEN [ found |-> TRUE,
           diet |-> DIET_KEYWORDS[<< LowerTok(query[Len(query)]) >>],
           ings |-> _split_ingredients(SubSeq(query, Leftmost(IsRestDietAt(query)) + 1,
                                               Len(query) - 1)) ]
    ELSE NoMatch

\* intent_detector._extract_diet: of _PROFILE_PATTERNS only the bare keyword
\* pattern can match; "" stands for None
_extract_diet(query) ==
    IF Len(query) = 1 /\ IsDietWord(query[1])
    THEN [ diet |-> DIET_KEYWORDS[<< LowerTok(query[1]) >>], remaining |-> <<>> ]
    ELSE [ diet |-> "", remaining |-> query ]

\* intent_detector._extract_ingredients_from_text: of the query patterns only
\* "check <rest>" can match; _clean_for_ingredients returns the text as it is
_extract_ingredients_from_text(text) ==
    IF text = <<>> THEN <<>>
    ELSE IF Len(text) >= 2 /\ text[1] = "check" /\ text[2] # ","
    THEN _split_ingredients(Tail(text))
    ELSE _split_ingredients(text)

\* detect_intent, lines 508 and 529: the diet names are filtered out
RECURSIVE FilterDietNames(_)
FilterDietNames(ingredients) ==
    IF ingredients = <<>> THEN <<>>
    ELSE (IF Lower(Head(ingredients)) \in _DIET_NAMES_LOWER THEN <<>>
          ELSE << Head(ingredients) >>)
         \o FilterDietNames(Tail(ingredients))

ParsedIntent(intent_name, diet, ingredients, query) ==
    [ n |-> 1, intent |-> intent_name, dietary_preference |-> diet,
      ingredients |-> ingredients, original_query |-> query ]

\* detect_intent, lines 472-533, d being what _extract_diet returned
classify(query, d) ==
    LET ingredients ==
            FilterDietNames(
                IF _extract_ingredients_from_text(d.remaining) = <<>>
                   /\ d.remaining # query /\ d.diet = ""
                THEN _extract_ingredients_from_text(query)
                ELSE _extract_ingredients_from_text(d.remaining))
    IN  IF d.diet # "" /\ ingredients # <<>>
        THEN ParsedIntent("MIXED", d.diet, ingredients, query)
        ELSE IF d.diet # "" THEN ParsedIntent("PROFILE_UPDATE", d.diet, <<>>, query)
        ELSE IF ingredients # <<>>
        THEN ParsedIntent("INGREDIENT_QUERY", "", ingredients, query)
        ELSE IF FilterDietNames(_extract_ingredients_from_text(query)) # <<>>
        THEN ParsedIntent("INGREDIENT_QUERY", "",
                          FilterDietNames(_extract_ingredients_from_text(query)), query)
        ELSE ParsedIntent("GENERAL_QUESTION", "", <<>>, query)

\* intent_detector.detect_intent
detect_intent(query) ==
    IF query = <<>> THEN ParsedIntent("GENERAL_QUESTION", "", <<>>, query)
    ELSE IF third_person(query).found
    THEN ParsedIntent("MIXED", third_person(query).diet, third_person(query).ings, query)
    ELSE classify(query, _extract_diet(query))

(***************************************************************************)
(* Inputs                                                                  *)
(***************************************************************************)
RAW_blank == <<" ">>
RAW_milk == <<"milk">>
RAW_eggs == <<" ", "Eggs", ".">>
RAW_water == <<"water">>
RAW_xyz == <<"xyz">>
RAW_milk_xyz == <<"milk", " ", "xyz">>
RAW_xyz_compound == <<"xyz", "_", "compound">>
RAW_question == <<"can", " ", "jain", " ", "eat", " ", "onion">>
RAW_long == <<"xyz", " ", "xyz", " ", "xyz", " ", "xyz", " ", "xyz", " ", "xyz">>
RAW_stopwords == <<"tell", " ", "me", " ", "the", " ", "xyz">>

\* the strings an ingredient list is made of
EngineRaws == { RAW_blank, RAW_milk, RAW_eggs, RAW_water, RAW_xyz, RAW_question }
\* the strings of the long ingredient lists
LongRaws == { RAW_blank, RAW_water, RAW_xyz }
\* the strings handed to the resolver directly
ResolverRaws == { <<>>, RAW_milk, RAW_eggs, RAW_xyz_compound,
                  RAW_question, RAW_long, RAW_stopwords }

Lists(S, n) == UNION { [1..k -> S] : k \in 0..n }

\* now is what time.time() returns during the call, in hours since the start
MkWorld(usda_key, off_enabled, usda, off, dyn_writable) ==
    [ usda_key |-> usda_key, off_enabled |-> off_enabled, usda |-> usda, off |-> off,
      dyn_writable |-> dyn_writable, now |-> 0 ]

\* what the environment of one call can be: the configuration, the answers of the
\* two services and whether dynamic_ontology.json can be opened for writing
ApiWorlds ==
    { MkWorld(TRUE, TRUE, NoFood, NoFood, TRUE),
      MkWorld(FALSE, FALSE, NoFood, NoFood, TRUE),
      MkWorld(TRUE, TRUE, FOOD_plant, FOOD_isinglass, TRUE),
      MkWorld(TRUE, TRUE, FOOD_isinglass, NoFood, TRUE),
      MkWorld(FALSE, TRUE, NoFood, FOOD_fish, TRUE),
      MkWorld(FALSE, TRUE, NoFood, FOOD_fish, FALSE) }

\* the environments of the direct resolver calls
ResolverWorlds ==
    { MkWorld(TRUE, TRUE, NoFood, NoFood, TRUE),
      MkWorld(TRUE, TRUE, FOOD_plant, FOOD_isinglass, TRUE),
      MkWorld(TRUE, TRUE, FOOD_isinglass, NoFood, TRUE),
      MkWorld(FALSE, TRUE, NoFood, FOOD_fish, FALSE) }

TraceChoices == { {}, { <<"milk">> }, { <<"xyz">> } }

\* restriction_ids (None when has is FALSE) and region_scope ("" for None)
RestrictionChoices ==
    { [ has |-> FALSE, ids |-> <<>>, region |-> "" ],
      [ has |-> TRUE, ids |-> <<"vegan">>, region |-> "" ],
      [ has |-> TRUE, ids |-> <<"dairy_caution", "vegan", "unknown_diet", "dairy_caution">>,
        region |-> "" ],
      [ has |-> FALSE, ids |-> <<>>, region |-> "EU" ] }

MkRequest(strings, choice, trace, use_api) ==
    [ ingredient_strings |-> strings, has_restriction_ids |-> choice.has,
      restriction_ids |-> choice.ids, region_scope |-> choice.region,
      trace_ingredient_keys |-> trace, use_api_fallback |-> use_api ]

Requests ==
    { MkRequest(l, c, t, u) :
        l \in Lists(EngineRaws, MaxLen), c \in RestrictionChoices,
        t \in TraceChoices, u \in BOOLEAN }
    \cup
    { MkRequest(l, c, {}, u) :
        l \in Lists(LongRaws, MaxLongLen),
        c \in { x \in RestrictionChoices : x.ids = <<"vegan">> }, u \in BOOLEAN }

NoRequest == MkRequest(<<>>, [ has |-> FALSE, ids |-> <<>>, region |-> "" ], {}, FALSE)

(***************************************************************************)
(* State                                                                   *)
(***************************************************************************)
VARIABLES
    by_key,        \* IngredientRegistry._by_key
    dyn_file,      \* the entries of data/dynamic_ontology.json
    api_cache,     \* fetcher._api_cache
    unknown_log,   \* the entries of the unknown-ingredient log
    pc,            \* what the process did last
    req,           \* the arguments of the evaluate call
    out,           \* what the last evaluate call yielded
    call,          \* the last direct resolve_with_fallback call
    rule_eval,     \* the last RestrictionRegistry.evaluate call
    restrictions,  \* RestrictionRegistry._by_id
    files,         \* the condition of the data files when the process starts
    http,          \* the get_with_retries call in progress, or the last one
    clock,         \* time.time(), in hours since the process started
    fetch,         \* the last direct fetch_ingredient_from_apis call
    rec,           \* the last direct UnknownIngredientsLog.record call
    profiles,      \* the content of profiles.json: user_id -> stored record
    upd,           \* the last update_profile_partial call
    again,         \* what a repeated evaluate call on the same engine yielded
    flat,          \* the last flatten_ingredients call
    prep,          \* the last preprocess_ingredients call
    writers,       \* the request workers that append to the dynamic ontology
    fetchers,      \* the request workers inside fetch_ingredient_from_apis
    intent         \* the last detect_intent call

\* the variables of the text functions and of the concurrent workers
late_vars == << again, flat, prep, writers, fetchers, intent >>

vars == << by_key, dyn_file, api_cache, unknown_log, pc, req, out, call, rule_eval,
           restrictions, files, http, clock, fetch, rec, profiles, upd, late_vars >>

\* the variables of the components that are exercised on their own
component_vars == << http, clock, fetch, rec, profiles, upd, late_vars >>

\* a component that has not been called
Idle == [ n |-> 0 ]

InitLate ==
    /\ again = Idle
    /\ flat = Idle
    /\ prep = Idle
    /\ writers = Idle
    /\ fetchers = Idle
    /\ intent = Idle

NoProfiles == << >>

NoUpdate ==
    [ user_id |-> "", kwargs |-> [ f \in ProfileFields \cup {"other"} |-> None ],
      existed |-> FALSE, before |-> UserProfile(""), returned |-> UserProfile(""), n |-> 0 ]

NoRecord == [ raw |-> <<>>, key |-> <<>>, restriction_ids |-> <<>>, before |-> 0, n |-> 0 ]

NoFetch ==
    [ key |-> <<>>, use_cache |-> FALSE,
      world |-> MkWorld(FALSE, FALSE, NoFood, NoFood, TRUE),
      cached_before |-> FALSE, age |-> 0,
      result |-> MkResult(NoIngredient, "low", "none"), requests |-> 0,
      consulted |-> <<>>, n |-> 0 ]

\* no such component has been called
InitComponents ==
    /\ http = NoHttp
    /\ clock = 0
    /\ fetch = NoFetch
    /\ rec = NoRecord
    /\ profiles = NoProfiles
    /\ upd = NoUpdate
    /\ InitLate

Reg == MkReg(by_key, dyn_file, api_cache, unknown_log)

NoCall ==
    [ raw |-> <<>>, key |-> <<>>, try_api |-> FALSE, log_unknown |-> FALSE,
      hit |-> FALSE, valid |-> FALSE,
      fetched |-> MkResult(NoIngredient, "low", "none"),
      ing |-> NoIngredient, source |-> "", level |-> "", requests |-> 0,
      raised |-> FALSE ]

NoRestriction == [ id |-> "", region_scope |-> {}, rules |-> <<>> ]

NoRuleEval == [ ing |-> NoIngredient, restriction |-> NoRestriction, result |-> "" ]

\* the process after start-up: both registries loaded, no dynamic ontology
\* file yet, empty cache and log
InitProcess ==
    /\ InitComponents
    /\ files = [ ontology |-> "ok", dynamic |-> "missing", restrictions |-> "ok" ]
    /\ by_key = LoadIndex(StaticOntology, <<>>)
    /\ restrictions = LoadedRestrictions
    /\ dyn_file = <<>>
    /\ api_cache = EmptyIndex
    /\ unknown_log = EmptyIndex
    /\ call = NoCall

(***************************************************************************)
(* SpecEngine: one evaluate call on a freshly started process              *)
(***************************************************************************)
InitEngine ==
    /\ InitProcess
    /\ pc = "request"
    /\ req \in Requests
    /\ rule_eval = NoRuleEval
    /\ out = evaluate(Reg, restrictions, NoRequest, MkWorld(FALSE, FALSE, NoFood, NoFood, TRUE))

\* the environments that can make a difference to the call: without the API
\* fallback the engine reads neither the services nor the dynamic ontology file
WorldsOf(r) ==
    IF r.use_api_fallback THEN ApiWorlds
    ELSE { MkWorld(FALSE, FALSE, NoFood, NoFood, TRUE) }

\* ComplianceEngine.evaluate
Evaluate ==
    /\ pc = "request"
    /\ \E world \in WorldsOf(req) :
         \E e \in { evaluate(Reg, restrictions, req, world) } :
             /\ out' = e
             /\ pc' = IF e.raised THEN "raised" ELSE "returned"
             /\ by_key' = e.reg.by_key
             /\ dyn_file' = e.reg.dyn_file
             /\ api_cache' = e.reg.api_cache
             /\ unknown_log' = e.reg.unknown_log
    /\ UNCHANGED << req, call, rule_eval, restrictions, files >>
    /\ UNCHANGED component_vars

NextEngine == Evaluate

SpecEngine == InitEngine /\ [][NextEngine]_vars


(***************************************************************************)
(* Spec: a running process whose registry is called directly               *)
(***************************************************************************)
Init ==
    /\ InitProcess
    /\ pc = "started"
    /\ req = NoRequest
    /\ rule_eval = NoRuleEval
    /\ out = evaluate(Reg, restrictions, NoRequest, MkWorld(FALSE, FALSE, NoFood, NoFood, TRUE))

\* IngredientRegistry.resolve_with_fallback, called on the running registry
ResolveWithFallback ==
    \E raw \in ResolverRaws, try_api \in BOOLEAN, log_unknown \in BOOLEAN,
       world \in ResolverWorlds :
        \E o \in { resolve_with_fallback(Reg, raw, try_api, log_unknown, <<"vegan">>, world) } :
        LET key == NormalizeKey(raw)
        IN  /\ \A k \in DOMAIN o.reg.unknown_log : o.reg.unknown_log[k].frequency <= MaxFreq
            /\ call' = [ raw |-> raw, key |-> key, try_api |-> try_api,
                         log_unknown |-> log_unknown,
                         hit |-> key \in DOMAIN by_key,
                         valid |-> _is_valid_ingredient_input(key),
                         fetched |-> IF key \in DOMAIN o.reg.api_cache
                                     THEN o.reg.api_cache[key].result
                                     ELSE MkResult(NoIngredient, "low", "none"),
                         ing |-> o.ing, source |-> o.source, level |-> o.level,
                         requests |-> o.requests, raised |-> o.raised ]
            /\ pc' = IF o.raised THEN "resolve_raised" ELSE "resolved"
            /\ by_key' = o.reg.by_key
            /\ dyn_file' = o.reg.dyn_file
            /\ api_cache' = o.reg.api_cache
            /\ unknown_log' = o.reg.unknown_log
            /\ UNCHANGED << req, out, rule_eval, restrictions, files >>
            /\ UNCHANGED component_vars

\* fetcher.clear_enrichment_cache
ClearEnrichmentCache ==
    /\ api_cache # EmptyIndex
    /\ api_cache' = EmptyIndex
    /\ pc' = "cache_cleared"
    /\ UNCHANGED << by_key, dyn_file, unknown_log, req, out, call, rule_eval, restrictions, files >>
    /\ UNCHANGED component_vars

Next == ResolveWithFallback \/ ClearEnrichmentCache

Spec == Init /\ [][Next]_vars


(***************************************************************************)
(* SpecRules: RestrictionRegistry.evaluate on one ingredient and one       *)
(* restriction, whatever its rule list                                     *)
(***************************************************************************)
\* the rules a restriction of SpecRules is made of
RulePool ==
    { MkRule("animal_origin", "equals", <<"true">>, "FAIL"),
      MkRule("dairy_source", "equals", <<"true">>, "WARN"),
      MkRule("animal_species", "in_list", <<"fish", "chicken">>, "FAIL"),
      MkRule("meat_fish_derived", "not_equals", <<"false">>, "WARN"),
      MkRule("aliases", "contains", <<"xyz">>, "WARN"),
      MkRule("alcohol_content", "greater_than", <<"0">>, "FAIL") }

\* the ingredients handed to RestrictionRegistry.evaluate: the static ontology
\* and one ingredient built from a USDA food
RuleIngredients ==
    { ING_water, ING_milk, ING_egg, _food_to_ingredient(FOOD_fish, <<"xyz">>) }

RuleRestrictions ==
    { [ id |-> "r", region_scope |-> {"GLOBAL"}, rules |-> l ] : l \in Lists(RulePool, MaxRules) }

InitRules ==
    /\ InitProcess
    /\ pc = "rules"
    /\ req = NoRequest
    /\ out = evaluate(Reg, restrictions, NoRequest, MkWorld(FALSE, FALSE, NoFood, NoFood, TRUE))
    /\ rule_eval \in { [ ing |-> i, restriction |-> r, result |-> "" ] :
                          i \in RuleIngredients, r \in RuleRestrictions }

\* RestrictionRegistry.evaluate
EvaluateRestriction ==
    /\ pc = "rules"
    /\ rule_eval' = [ rule_eval EXCEPT
                        !.result = RestrictionEvaluate(rule_eval.ing, rule_eval.restriction) ]
    /\ pc' = "evaluated"
    /\ UNCHANGED << by_key, dyn_file, api_cache, unknown_log, req, out, call, restrictions, files >>
    /\ UNCHANGED component_vars

NextRules == EvaluateRestriction

SpecRules == InitRules /\ [][NextRules]_vars


(***************************************************************************)
(* SpecStartup: the engine is constructed from the data files as they are  *)
(* found, then called once                                                 *)
(***************************************************************************)
\* a data file is read ("ok"), does not exist, or does not hold JSON
FileConditions == { "ok", "missing", "malformed" }

DataFiles ==
    [ ontology : FileConditions, dynamic : FileConditions, restrictions : FileConditions ]

\* data/dynamic_ontology.json after an earlier promotion of an API result
DYN_promoted ==
    DynAppend(<<>>, _product_to_ingredient(FOOD_fish, <<"xyz">>), "open_food_facts", "high")

\* IngredientRegistry._load: json.load of the static ontology is not guarded
IngredientLoadRaises(f) == f.ontology = "malformed"

\* IngredientRegistry._load: the static file if it exists, then the dynamic
\* file if it exists and can be read (its load is inside try/except)
IngredientLoad(f, file) ==
    LoadIndex(IF f.ontology = "ok" THEN StaticOntology ELSE <<>>,
              IF f.dynamic = "ok" THEN file ELSE <<>>)

\* RestrictionRegistry._load: json.load is not guarded
RestrictionLoadRaises(f) == f.restrictions = "malformed"

\* RestrictionRegistry._load: nothing is loaded from a file that does not exist
RestrictionLoad(f) ==
    IF f.restrictions = "ok" THEN LoadedRestrictions ELSE EmptyRestrictions

\* the strings of the ingredient lists of SpecStartup
StartupRaws == { RAW_milk, RAW_water, RAW_xyz }

StartupRequests ==
    { MkRequest(l, c, {}, u) :
        l \in Lists(StartupRaws, MaxStartupLen), c \in RestrictionChoices, u \in BOOLEAN }

InitStartup ==
    /\ InitComponents
    /\ files \in DataFiles
    /\ dyn_file \in (IF files.dynamic = "ok" THEN { <<>>, DYN_promoted } ELSE { <<>> })
    /\ by_key = EmptyIndex
    /\ restrictions = EmptyRestrictions
    /\ api_cache = EmptyIndex
    /\ unknown_log = EmptyIndex
    /\ call = NoCall
    /\ rule_eval = NoRuleEval
    /\ pc = "boot"
    /\ req \in StartupRequests
    /\ out = evaluate(Reg, restrictions, NoRequest, MkWorld(FALSE, FALSE, NoFood, NoFood, TRUE))

\* ComplianceEngine.__init__ with no arguments: IngredientRegistry(), then
\* RestrictionRegistry()
Construct ==
    /\ pc = "boot"
    /\ IF IngredientLoadRaises(files) \/ RestrictionLoadRaises(files)
       THEN /\ pc' = "construct_raised"
            /\ UNCHANGED << by_key, restrictions >>
       ELSE /\ pc' = "request"
            /\ by_key' = IngredientLoad(files, dyn_file)
            /\ restrictions' = RestrictionLoad(files)
    /\ UNCHANGED << dyn_file, api_cache, unknown_log, req, out, call, rule_eval, files >>
    /\ UNCHANGED component_vars

NextStartup == Construct \/ Evaluate

SpecStartup == InitStartup /\ [][NextStartup]_vars


(***************************************************************************)
(* SpecRetry: one get_with_retries call, try by try                        *)
(***************************************************************************)
\* the variables of the engine, which the components on their own leave alone
engine_vars == << by_key, dyn_file, req, out, call, rule_eval, restrictions, files >>

\* the engine of a process in which only a component is exercised (the cache
\* and the unknown log are set by the component's own start)
InitEngineIdle ==
    /\ files = [ ontology |-> "ok", dynamic |-> "missing", restrictions |-> "ok" ]
    /\ by_key = LoadIndex(StaticOntology, <<>>)
    /\ restrictions = LoadedRestrictions
    /\ dyn_file = <<>>
    /\ call = NoCall
    /\ req = NoRequest
    /\ rule_eval = NoRuleEval
    /\ out = evaluate(Reg, restrictions, NoRequest, MkWorld(FALSE, FALSE, NoFood, NoFood, TRUE))

InitRetry ==
    /\ api_cache = EmptyIndex
    /\ unknown_log = EmptyIndex
    /\ InitEngineIdle
    /\ clock = 0
    /\ fetch = NoFetch
    /\ rec = NoRecord
    /\ profiles = NoProfiles
    /\ upd = NoUpdate
    /\ InitLate
    /\ pc = "get"
    /\ http \in { StartGet(m, b) : m \in 0..DEFAULT_MAX_RETRIES,
                                   b \in { DEFAULT_INITIAL_BACKOFF, 2 } }

\* get_with_retries: one try
Get ==
    /\ http.status = "calling"
    /\ http.attempt < http.max_retries
    /\ \E outcome \in GetOutcomes : http' = get_attempt(http, outcome)
    /\ pc' = "get"
    /\ UNCHANGED << engine_vars, api_cache, unknown_log, clock, fetch, rec, profiles, upd, late_vars >>

\* get_with_retries: no try is left
GiveUp ==
    /\ http.status = "calling"
    /\ http.attempt >= http.max_retries
    /\ http' = get_exhausted(http)
    /\ pc' = "get"
    /\ UNCHANGED << engine_vars, api_cache, unknown_log, clock, fetch, rec, profiles, upd, late_vars >>

NextRetry == Get \/ GiveUp

SpecRetry == InitRetry /\ [][NextRetry]_vars


(***************************************************************************)
(* SpecFetch: the fetcher called directly, in a process whose cache may    *)
(* already be full, while time passes                                      *)
(***************************************************************************)
\* the cache after n keys that no service knows have been fetched at start-up
FilledCache(n) ==
    [ k \in { <<ToString(i)>> : i \in 1..n } |->
        MkCached(MkResult(NoIngredient, "low", "none"), 0) ]

FetchKeys == { <<"xyz">>, <<"xyz", "_", "compound">> }

\* the configurations and service answers of the direct fetches
FetchWorlds ==
    { MkWorld(TRUE, TRUE, NoFood, NoFood, TRUE),
      MkWorld(TRUE, TRUE, FOOD_plant, FOOD_isinglass, TRUE),
      MkWorld(TRUE, TRUE, FOOD_isinglass, FOOD_fish, TRUE),
      MkWorld(TRUE, FALSE, NoFood, FOOD_fish, TRUE),
      MkWorld(FALSE, TRUE, FOOD_plant, FOOD_fish, TRUE),
      MkWorld(FALSE, FALSE, FOOD_plant, FOOD_fish, TRUE) }

InitFetch ==
    /\ api_cache \in { EmptyIndex, FilledCache(CACHE_MAX_ENTRIES - 1),
                        FilledCache(CACHE_MAX_ENTRIES) }
    /\ unknown_log = EmptyIndex
    /\ InitEngineIdle
    /\ http = NoHttp
    /\ clock = 0
    /\ fetch = NoFetch
    /\ rec = NoRecord
    /\ profiles = NoProfiles
    /\ upd = NoUpdate
    /\ InitLate
    /\ pc = "started"

\* fetcher.fetch_ingredient_from_apis
Fetch ==
    /\ fetch.n < MaxFetches
    /\ \E key \in FetchKeys, use_cache \in BOOLEAN, world \in FetchWorlds :
         \E f \in { fetch_ingredient_from_apis(api_cache, key, use_cache,
                                                [ world EXCEPT !.now = clock ]) } :
             /\ api_cache' = f.cache
             /\ fetch' = [ key |-> key, use_cache |-> use_cache, world |-> world,
                           cached_before |-> key \in DOMAIN api_cache,
                           age |-> IF key \in DOMAIN api_cache
                                   THEN clock - api_cache[key].time ELSE 0,
                           result |-> f.result, requests |-> f.requests,
                           consulted |-> f.consulted, n |-> fetch.n + 1 ]
    /\ pc' = "fetched"
    /\ UNCHANGED << engine_vars, unknown_log, http, clock, rec, profiles, upd, late_vars >>

\* an hour passes
Tick ==
    /\ clock < MaxClock
    /\ clock' = clock + 1
    /\ pc' = "waited"
    /\ UNCHANGED << engine_vars, api_cache, unknown_log, http, fetch, rec, profiles, upd, late_vars >>

NextFetch == Fetch \/ Tick \/ ClearEnrichmentCache

SpecFetch == InitFetch /\ [][NextFetch]_vars


(***************************************************************************)
(* SpecLog: the unknown-ingredient log called directly, in a process that  *)
(* may have recorded many lookups of one key already                       *)
(***************************************************************************)
\* a raw input that normalizes to xyz: the i-th spelling has i trailing blanks
RawVariant(i) == <<"xyz">> \o [ j \in 1..i |-> " " ]

RestrictionIdPool ==
    << "vegan", "halal", "kosher", "jain", "gluten_free", "nut_free", "dairy_free",
       "egg_free", "soy_free", "no_fish", "no_pork", "no_alcohol" >>

\* the log after the key xyz has been recorded freq times, under n_raw
\* spellings and with the first n_ids restriction ids of the pool
LogAfter(n_raw, n_ids, freq) ==
    [ k \in { <<"xyz">> } |->
        [ raw_inputs |-> [ i \in 1..n_raw |-> RawVariant(i) ],
          frequency |-> freq,
          restriction_ids_sample |-> SubSeq(RestrictionIdPool, 1, n_ids) ] ]

RecordRaws ==
    { <<>>, RawVariant(1), RawVariant(RAW_INPUTS_CAP + 5), RawVariant(RAW_INPUTS_CAP + 6),
      <<"abc">> }

RecordKeys == { <<>>, <<"xyz">>, <<"abc">> }

RecordIds ==
    { <<>>, <<"vegan">>, SubSeq(RestrictionIdPool, 7, 12), SubSeq(RestrictionIdPool, 11, 12) }

InitLog ==
    /\ api_cache = EmptyIndex
    /\ unknown_log \in { EmptyIndex,
                          LogAfter(RAW_INPUTS_CAP - 1, RESTRICTION_SAMPLE_CAP - 2,
                                   RAW_INPUTS_CAP - 1),
                          LogAfter(RAW_INPUTS_CAP, RESTRICTION_SAMPLE_CAP,
                                   2 * RAW_INPUTS_CAP) }
    /\ InitEngineIdle
    /\ http = NoHttp
    /\ clock = 0
    /\ fetch = NoFetch
    /\ rec = NoRecord
    /\ profiles = NoProfiles
    /\ upd = NoUpdate
    /\ InitLate
    /\ pc = "started"

\* UnknownIngredientsLog.record
Record ==
    /\ rec.n < MaxRecords
    /\ \E raw \in RecordRaws, key \in RecordKeys, rids \in RecordIds :
         /\ unknown_log' = record(unknown_log, raw, key, rids)
         /\ rec' = [ raw |-> raw, key |-> key, restriction_ids |-> rids,
                     before |-> IF key \in DOMAIN unknown_log
                                THEN unknown_log[key].frequency ELSE 0,
                     n |-> rec.n + 1 ]
    /\ pc' = "recorded"
    /\ UNCHANGED << engine_vars, api_cache, http, clock, fetch, profiles, upd, late_vars >>

NextLog == Record

SpecLog == InitLog /\ [][NextLog]_vars


(***************************************************************************)
(* update_profile_partial called directly, over stored records of the new  *)
(* shape and of the legacy shape.                                          *)
(***************************************************************************)
ProfileUsers == { "p1", "p2" }

\* the record of tests/test_parser_and_profile.py:98-100
STORED_jain == MkStored(<<"Jain">>, <<"Nuts">>, <<>>, <<>>, None, None, None)

\* a record of the legacy shape (test_user_profile_from_dict_legacy)
STORED_legacy ==
    MkStored(None, None, None, <<"halal">>, <<"vegan">>, <<"Milk">>, <<"no alcohol">>)

StoredProfiles ==
    { NoProfiles,
      [ u \in {"p1"} |-> STORED_jain ],
      [ u \in {"p1", "p2"} |-> IF u = "p1" THEN STORED_legacy ELSE STORED_jain ] }

UpdateKwargs ==
    { [ dietary_preference |-> d, allergens |-> a, lifestyle |-> l,
        religious_preferences |-> r, other |-> o ] :
        d \in { None, <<"Jain">>, <<" ", "Vegan", " ">>, <<>> },
        a \in { None, <<>>, <<"Egg">> },
        l \in { None, <<"no alcohol">> },
        r \in { None, <<"kosher">> },
        o \in { None, <<"x">> } }

InitProfile ==
    /\ api_cache = EmptyIndex
    /\ unknown_log = EmptyIndex
    /\ InitEngineIdle
    /\ http = NoHttp
    /\ clock = 0
    /\ fetch = NoFetch
    /\ rec = NoRecord
    /\ profiles \in StoredProfiles
    /\ upd = NoUpdate
    /\ InitLate
    /\ pc = "started"

\* update_profile_partial(user_id, **kwargs)
UpdateProfilePartial ==
    /\ upd.n < MaxUpdates
    /\ \E user_id \in ProfileUsers, kwargs \in UpdateKwargs :
         \E o \in { update_profile_partial(profiles, user_id, kwargs) } :
            /\ profiles' = o.stored
            /\ upd' = [ user_id |-> user_id, kwargs |-> kwargs,
                        existed |-> user_id \in DOMAIN profiles,
                        before |-> get_or_create_profile(profiles, user_id),
                        returned |-> o.profile, n |-> upd.n + 1 ]
    /\ pc' = "updated"
    /\ UNCHANGED << engine_vars, api_cache, unknown_log, http, clock, fetch, rec, late_vars >>

NextProfile == UpdateProfilePartial

SpecProfile == InitProfile /\ [][NextProfile]_vars


(***************************************************************************)
(* SpecPure: the same evaluate call made twice on one engine, the answers  *)
(* of the services being the same both times                               *)
(***************************************************************************)
PureRaws == { RAW_milk, RAW_milk_xyz, RAW_xyz, RAW_water }

\* evaluate(I, [R]) for each restriction id R
PureRequests ==
    { MkRequest(l, [ has |-> TRUE, ids |-> << r >>, region |-> "" ], {}, u) :
        l \in Lists(PureRaws, MaxPureLen), r \in { "vegan", "dairy_caution", "no_fish" },
        u \in BOOLEAN }

PureWorlds ==
    { MkWorld(TRUE, TRUE, NoFood, NoFood, TRUE),
      MkWorld(TRUE, TRUE, FOOD_milk, NoFood, TRUE),
      MkWorld(TRUE, TRUE, FOOD_plant, FOOD_isinglass, TRUE),
      MkWorld(FALSE, TRUE, NoFood, FOOD_fish, TRUE),
      MkWorld(FALSE, TRUE, NoFood, FOOD_fish, FALSE) }

\* what the caller of evaluate sees: the verdict, or the exception
Seen(e) == IF e.raised THEN [ raised |-> TRUE ] ELSE [ raised |-> FALSE, verdict |-> e.verdict ]

InitPure ==
    /\ InitProcess
    /\ pc = "request"
    /\ req \in PureRequests
    /\ rule_eval = NoRuleEval
    /\ out = evaluate(Reg, restrictions, NoRequest, MkWorld(FALSE, FALSE, NoFood, NoFood, TRUE))

\* the first ComplianceEngine.evaluate call
EvaluateOnce ==
    /\ pc = "request"
    /\ \E world \in (IF req.use_api_fallback THEN PureWorlds
                     ELSE { MkWorld(FALSE, FALSE, NoFood, NoFood, TRUE) }) :
         \E e \in { evaluate(Reg, restrictions, req, world) } :
             /\ out' = e
             /\ again' = [ n |-> 1, world |-> world, first |-> Seen(e), second |-> Seen(e),
                           hits |-> 0 ]
             /\ by_key' = e.reg.by_key
             /\ dyn_file' = e.reg.dyn_file
             /\ api_cache' = e.reg.api_cache
             /\ unknown_log' = e.reg.unknown_log
    /\ pc' = "evaluated"
    /\ UNCHANGED << req, call, rule_eval, restrictions, files >>
    /\ UNCHANGED << http, clock, fetch, rec, profiles, upd, flat, prep, writers, fetchers, intent >>

\* the same call again, on the registry, cache and log that the first call left
EvaluateAgain ==
    /\ pc = "evaluated"
    /\ \E e \in { evaluate(Reg, restrictions, req, again.world) } :
         /\ out' = e
         /\ again' = [ again EXCEPT !.n = 2, !.second = Seen(e),
                         !.hits = Cardinality({ i \in 1..Len(e.calls) :
                                                  e.calls[i].source \in {"static", "dynamic"}
                                                    /\ ~IsNone(e.calls[i].ing) }) ]
         /\ by_key' = e.reg.by_key
         /\ dyn_file' = e.reg.dyn_file
         /\ api_cache' = e.reg.api_cache
         /\ unknown_log' = e.reg.unknown_log
    /\ pc' = "repeated"
    /\ UNCHANGED << req, call, rule_eval, restrictions, files >>
    /\ UNCHANGED << http, clock, fetch, rec, profiles, upd, flat, prep, writers, fetchers, intent >>

NextPure == EvaluateOnce \/ EvaluateAgain

SpecPure == InitPure /\ [][NextPure]_vars


(***************************************************************************)
(* SpecOntology: appends to the dynamic ontology and API promotions on a   *)
(* running process                                                         *)
(***************************************************************************)
\* an ingredient as tests/test_enrichment.py appends it
ING_custom ==
    MkIngredient(<<"test_custom_1">>, <<"custom", " ", "flour">>, <<>>,
                 "false", "false", "false", "none", "none")

\* an enrichment candidate that carries the id of a static ingredient
ING_milk_candidate ==
    MkIngredient(ING_milk.id, <<"milk", " ", "xyz">>, <<>>,
                 "true", "true", "false", "cow", "none")

AppendIngredients == { ING_custom, ING_milk_candidate, ING_milk }

\* DynamicOntology.append(ingredient, source, confidence) on the default file
AppendToDynamic ==
    /\ \E ing \in AppendIngredients :
         dyn_file' = DynAppend(dyn_file, ing, "test", "high")
    /\ pc' = "appended"
    /\ UNCHANGED << by_key, api_cache, unknown_log, req, out, call, rule_eval, restrictions, files >>
    /\ UNCHANGED component_vars

OntologyWorlds ==
    { MkWorld(TRUE, TRUE, FOOD_milk, NoFood, TRUE),
      MkWorld(FALSE, TRUE, NoFood, FOOD_fish, TRUE) }

\* IngredientRegistry.resolve_with_fallback with the API fallback and without
\* the unknown log
LookUp ==
    /\ \E raw \in { RAW_xyz, RAW_milk_xyz }, world \in OntologyWorlds :
         \E o \in { resolve_with_fallback(Reg, raw, TRUE, FALSE, <<>>, world) } :
            /\ call' = [ raw |-> raw, key |-> NormalizeKey(raw), try_api |-> TRUE,
                         log_unknown |-> FALSE,
                         hit |-> NormalizeKey(raw) \in DOMAIN by_key,
                         valid |-> _is_valid_ingredient_input(NormalizeKey(raw)),
                         fetched |-> IF NormalizeKey(raw) \in DOMAIN o.reg.api_cache
                                     THEN o.reg.api_cache[NormalizeKey(raw)].result
                                     ELSE MkResult(NoIngredient, "low", "none"),
                         ing |-> o.ing, source |-> o.source, level |-> o.level,
                         requests |-> o.requests, raised |-> o.raised ]
            /\ pc' = IF o.raised THEN "resolve_raised" ELSE "resolved"
            /\ by_key' = o.reg.by_key
            /\ dyn_file' = o.reg.dyn_file
            /\ api_cache' = o.reg.api_cache
            /\ unknown_log' = o.reg.unknown_log
    /\ UNCHANGED << req, out, rule_eval, restrictions, files >>
    /\ UNCHANGED component_vars

NextOntology == AppendToDynamic \/ LookUp

SpecOntology == Init /\ [][NextOntology]_vars


(***************************************************************************)
(* SpecFlatten: flatten_ingredients called on a text                       *)
(***************************************************************************)
FlattenTokens == { "teriyaki", "soy", "sauce", "Bread", "water", " ", ",", "(", ")" }

FlattenTexts == UNION { [ 1..k -> FlattenTokens ] : k \in 0..MaxTextLen }

InitFlatten ==
    /\ api_cache = EmptyIndex
    /\ unknown_log = EmptyIndex
    /\ InitEngineIdle
    /\ http = NoHttp
    /\ clock = 0
    /\ fetch = NoFetch
    /\ rec = NoRecord
    /\ profiles = NoProfiles
    /\ upd = NoUpdate
    /\ InitLate
    /\ pc = "started"

\* flatten_ingredients(raw_str), and the same function on each atom it returned
Flatten ==
    /\ pc = "started"
    /\ \E raw_str \in FlattenTexts :
         \E result \in { flatten_ingredients(raw_str) } :
            flat' = [ n |-> 1, raw_str |-> raw_str, result |-> result,
                      reflattened |-> FlattenEach(result) ]
    /\ pc' = "flattened"
    /\ UNCHANGED << engine_vars, api_cache, unknown_log, http, clock, fetch, rec, profiles, upd >>
    /\ UNCHANGED << again, prep, writers, fetchers, intent >>

NextFlatten == Flatten

SpecFlatten == InitFlatten /\ [][NextFlatten]_vars


(***************************************************************************)
(* SpecTrace: one evaluate call with trace keys, next to the same call on  *)
(* an engine in the same state with the key "xyz" not marked as trace      *)
(***************************************************************************)
TraceRaws == { RAW_blank, RAW_milk, RAW_water, RAW_xyz }

TraceRequests ==
    { MkRequest(l, c, t, u) :
        l \in Lists(TraceRaws, MaxLen), c \in RestrictionChoices,
        t \in { { <<"xyz">> }, { <<"xyz">>, <<"milk">> } }, u \in BOOLEAN }

Unmarked(r) == [ r EXCEPT !.trace_ingredient_keys = @ \ { <<"xyz">> } ]

InitTrace ==
    /\ InitProcess
    /\ pc = "request"
    /\ req \in TraceRequests
    /\ rule_eval = NoRuleEval
    /\ out = evaluate(Reg, restrictions, NoRequest, MkWorld(FALSE, FALSE, NoFood, NoFood, TRUE))

\* ComplianceEngine.evaluate with trace keys; again.second is what the call
\* without the mark on "xyz" returns from the same state of the engine
EvaluateTraced ==
    /\ pc = "request"
    /\ \E world \in WorldsOf(req) :
         \E e \in { evaluate(Reg, restrictions, req, world) } :
             /\ out' = e
             /\ again' = [ n |-> 1, world |-> world, first |-> Seen(e),
                           second |-> Seen(evaluate(Reg, restrictions, Unmarked(req), world)),
                           hits |-> 0 ]
             /\ pc' = IF e.raised THEN "raised" ELSE "returned"
             /\ by_key' = e.reg.by_key
             /\ dyn_file' = e.reg.dyn_file
             /\ api_cache' = e.reg.api_cache
             /\ unknown_log' = e.reg.unknown_log
    /\ UNCHANGED << req, call, rule_eval, restrictions, files >>
    /\ UNCHANGED << http, clock, fetch, rec, profiles, upd, flat, prep, writers, fetchers, intent >>

NextTrace == EvaluateTraced

SpecTrace == InitTrace /\ [][NextTrace]_vars


(***************************************************************************)
(* SpecPreprocess: preprocess_ingredients over every label of at most      *)
(* MaxLabelLen tokens                                                      *)
(***************************************************************************)
LabelTokens == { "salt", "sugar", TRACE_MARK, " ", ",", "(", ")" }

LabelTexts == Lists(LabelTokens, MaxLabelLen)

InitPreprocess ==
    /\ api_cache = EmptyIndex
    /\ unknown_log = EmptyIndex
    /\ InitEngineIdle
    /\ http = NoHttp
    /\ clock = 0
    /\ fetch = NoFetch
    /\ rec = NoRecord
    /\ profiles = NoProfiles
    /\ upd = NoUpdate
    /\ InitLate
    /\ pc = "started"

\* ingredient_parser.preprocess_ingredients
Preprocess ==
    /\ pc = "started"
    /\ \E raw_str \in LabelTexts : prep' = preprocess(raw_str)
    /\ pc' = "preprocessed"
    /\ UNCHANGED << by_key, dyn_file, api_cache, unknown_log, req, out, call, rule_eval, restrictions, files >>
    /\ UNCHANGED << http, clock, fetch, rec, profiles, upd >>
    /\ UNCHANGED << again, flat, writers, fetchers, intent >>

NextPreprocess == Preprocess

SpecPreprocess == InitPreprocess /\ [][NextPreprocess]_vars


(***************************************************************************)
(* SpecWriters: two workers promote one ingredient each through            *)
(* append_to_dynamic_ontology.  Each call builds its own DynamicOntology   *)
(* from the file, appends in memory and rewrites the file; nothing in the  *)
(* code orders the steps of the two calls.  writers.disk tells whether the *)
(* bytes of the file are a complete document, dyn_file what it holds.      *)
(***************************************************************************)
Workers == { "w1", "w2" }

WriterIngredients == { ING_custom, ING_milk_candidate, DYN_promoted[1].ingredient }

IdleWriter(ing) == [ at |-> "called", ingredient |-> ing, _ingredients |-> <<>> ]

InitWriters ==
    /\ api_cache = EmptyIndex
    /\ unknown_log = EmptyIndex
    /\ files = [ ontology |-> "ok", dynamic |-> "ok", restrictions |-> "ok" ]
    /\ by_key = LoadIndex(StaticOntology, <<>>)
    /\ restrictions = LoadedRestrictions
    /\ call = NoCall
    /\ req = NoRequest
    /\ rule_eval = NoRuleEval
    /\ http = NoHttp
    /\ clock = 0
    /\ fetch = NoFetch
    /\ rec = NoRecord
    /\ profiles = NoProfiles
    /\ upd = NoUpdate
    /\ again = Idle /\ flat = Idle /\ prep = Idle /\ fetchers = Idle /\ intent = Idle
    /\ pc = "promoting"
    /\ \E a \in WriterIngredients, b \in WriterIngredients, d \in { "missing", "complete" } :
          /\ a # b
          /\ dyn_file \in (IF d = "complete" THEN { <<>>, DYN_promoted } ELSE { <<>> })
          /\ out = evaluate(Reg, restrictions, NoRequest,
                            MkWorld(FALSE, FALSE, NoFood, NoFood, TRUE))
          /\ writers = [ n |-> 0, disk |-> d, open |-> {}, overwritten |-> {},
                         w |-> ("w1" :> IdleWriter(a)) @@ ("w2" :> IdleWriter(b)) ]

\* what no step of append_to_dynamic_ontology touches
WritersFrame ==
    /\ UNCHANGED << by_key, api_cache, unknown_log, pc, req, out, call, rule_eval, restrictions, files >>
    /\ UNCHANGED << http, clock, fetch, rec, profiles, upd >>
    /\ UNCHANGED << again, flat, prep, fetchers, intent >>

\* DynamicOntology.__init__ and _load, lines 24-42: a missing file and a file
\* that json.load rejects both give an empty list
LoadDynamic(w) ==
    /\ writers.w[w].at = "called"
    /\ writers' = [ writers EXCEPT
                      !.w[w]._ingredients = IF writers.disk = "complete" THEN dyn_file ELSE <<>>,
                      !.w[w].at = "loaded" ]
    /\ UNCHANGED dyn_file
    /\ WritersFrame

\* DynamicOntology.append, lines 64-71: return when the id is in the loaded
\* list, else add the entry to the list in memory
AppendEntry(w) ==
    /\ writers.w[w].at = "loaded"
    /\ writers' = [ writers EXCEPT
                      !.w[w]._ingredients =
                          DynAppend(@, writers.w[w].ingredient, "usda_fdc", "high"),
                      !.w[w].at = IF DynAppendWrites(writers.w[w]._ingredients,
                                                     writers.w[w].ingredient)
                                  THEN "appended" ELSE "returned" ]
    /\ UNCHANGED dyn_file
    /\ WritersFrame

\* DynamicOntology._save, line 46: open(path, "w") empties the file
OpenForWrite(w) ==
    /\ writers.w[w].at = "appended"
    /\ writers' = [ writers EXCEPT !.disk = "partial",
                                   !.open = @ \cup {w},
                                   !.overwritten = @ \ {w},
                                   !.w[w].at = "writing" ]
    /\ dyn_file' = <<>>
    /\ WritersFrame

\* DynamicOntology._save, lines 47-54: json.dump through the open file, then
\* close.  The text goes to the start of the file; when another writer's text
\* arrived after this writer's open, what remains behind the end of the text
\* depends on the two lengths: a complete document or not
DumpAndClose(w) ==
    /\ writers.w[w].at = "writing"
    /\ \E d \in (IF w \in writers.overwritten THEN { "complete", "partial" }
                 ELSE { "complete" }) :
          /\ writers' = [ writers EXCEPT !.disk = d,
                                         !.open = @ \ {w},
                                         !.overwritten = (@ \cup writers.open) \ {w},
                                         !.n = @ + 1,
                                         !.w[w].at = "returned" ]
          /\ dyn_file' = IF d = "complete" THEN writers.w[w]._ingredients ELSE <<>>
    /\ WritersFrame

\* append_to_dynamic_ontology, one step of one of the two calls
NextWriters ==
    \E w \in Workers :
        LoadDynamic(w) \/ AppendEntry(w) \/ OpenForWrite(w) \/ DumpAndClose(w)

SpecWriters == InitWriters /\ [][NextWriters]_vars


(***************************************************************************)
(* SpecFetchers: two threads of one process inside                         *)
(* fetch_ingredient_from_apis with the cache in use.  The module holds no  *)
(* lock; a thread can be suspended between any two of the steps below,     *)
(* while a single read or assignment of _api_cache is one step.            *)
(***************************************************************************)
Threads == { "t1", "t2" }

FetcherWorlds ==
    { MkWorld(TRUE, TRUE, NoFood, NoFood, TRUE),
      MkWorld(TRUE, TRUE, FOOD_plant, FOOD_isinglass, TRUE) }

IdleFetcher(key, world) ==
    [ at |-> "called", key |-> key, world |-> world,
      best |-> MkResult(NoIngredient, "low", "none") ]

InitFetchers ==
    /\ api_cache \in { EmptyIndex, FilledCache(CACHE_MAX_ENTRIES - 1),
                        FilledCache(CACHE_MAX_ENTRIES) }
    /\ unknown_log = EmptyIndex
    /\ InitEngineIdle
    /\ http = NoHttp
    /\ clock = 0
    /\ fetch = NoFetch
    /\ rec = NoRecord
    /\ profiles = NoProfiles
    /\ upd = NoUpdate
    /\ again = Idle /\ flat = Idle /\ prep = Idle /\ writers = Idle /\ intent = Idle
    /\ pc = "fetching"
    /\ \E k1 \in FetchKeys, k2 \in FetchKeys, v1 \in FetcherWorlds, v2 \in FetcherWorlds :
          fetchers = [ n |-> 0,
                       t |-> ("t1" :> IdleFetcher(k1, v1)) @@ ("t2" :> IdleFetcher(k2, v2)) ]

\* what no step of fetch_ingredient_from_apis touches
FetchersFrame ==
    /\ UNCHANGED << by_key, dyn_file, unknown_log, pc, req, out, call, rule_eval, restrictions, files >>
    /\ UNCHANGED << http, clock, fetch, rec, profiles, upd >>
    /\ UNCHANGED << again, flat, prep, writers, intent >>

\* fetch_ingredient_from_apis, lines 34-38: the cached result is returned
LookInCache(t) ==
    /\ fetchers.t[t].at = "called"
    /\ fetchers' = IF fetchers.t[t].key \in DOMAIN api_cache
                   THEN [ fetchers EXCEPT !.t[t].best = api_cache[fetchers.t[t].key].result,
                                          !.t[t].at = "returned" ]
                   ELSE [ fetchers EXCEPT !.t[t].at = "asking" ]
    /\ UNCHANGED api_cache
    /\ FetchersFrame

\* fetch_ingredient_from_apis, lines 40-83: best from the two services
AskServices(t) ==
    /\ fetchers.t[t].at = "asking"
    /\ fetchers' = [ fetchers EXCEPT
                       !.t[t].best = fetch_ingredient_from_apis(EmptyIndex, fetchers.t[t].key,
                                                                FALSE, fetchers.t[t].world).result,
                       !.t[t].at = "asked" ]
    /\ UNCHANGED api_cache
    /\ FetchersFrame

\* fetch_ingredient_from_apis, line 85: len(_api_cache) < _CACHE_MAX_ENTRIES
CheckRoom(t) ==
    /\ fetchers.t[t].at = "asked"
    /\ fetchers' = [ fetchers EXCEPT
                       !.t[t].at = IF Cardinality(DOMAIN api_cache) < CACHE_MAX_ENTRIES
                                   THEN "storing" ELSE "returned" ]
    /\ UNCHANGED api_cache
    /\ FetchersFrame

\* fetch_ingredient_from_apis, line 87: _api_cache[key] = (best, time.time())
Store(t) ==
    /\ fetchers.t[t].at = "storing"
    /\ api_cache' = [ k \in (DOMAIN api_cache) \cup { fetchers.t[t].key } |->
                        IF k = fetchers.t[t].key THEN MkCached(fetchers.t[t].best, clock)
                        ELSE api_cache[k] ]
    /\ fetchers' = [ fetchers EXCEPT !.n = @ + 1, !.t[t].at = "returned" ]
    /\ FetchersFrame

NextFetchers ==
    \E t \in Threads : LookInCache(t) \/ AskServices(t) \/ CheckRoom(t) \/ Store(t)

SpecFetchers == InitFetchers /\ [][NextFetchers]_vars


(***************************************************************************)
(* SpecIntent: detect_intent over every query of at most MaxQueryLen       *)
(* tokens                                                                  *)
(***************************************************************************)
QueryTokens == { "can", "is", "eat", "check", "milk", "jain", "Halal", "," }

\* query.strip() changes none of them: they hold no leading or trailing space
Queries == Lists(QueryTokens, MaxQueryLen)

InitIntent ==
    /\ api_cache = EmptyIndex
    /\ unknown_log = EmptyIndex
    /\ InitEngineIdle
    /\ http = NoHttp
    /\ clock = 0
    /\ fetch = NoFetch
    /\ rec = NoRecord
    /\ profiles = NoProfiles
    /\ upd = NoUpdate
    /\ InitLate
    /\ pc = "started"

\* intent_detector.detect_intent
DetectIntent ==
    /\ pc = "started"
    /\ \E query \in Queries : intent' = detect_intent(query)
    /\ pc' = "detected"
    /\ UNCHANGED << by_key, dyn_file, api_cache, unknown_log, req, out, call, rule_eval, restrictions, files >>
    /\ UNCHANGED << http, clock, fetch, rec, profiles, upd >>
    /\ UNCHANGED << again, flat, prep, writers, fetchers >>

NextIntent == DetectIntent

SpecIntent == InitIntent /\ [][NextIntent]_vars


(***************************************************************************)
(* Properties                                                              *)
(***************************************************************************)
\* the indices of the rules of a list that match the ingredient
MatchingRules(ing, rules) ==
    { i \in 1..Len(rules) : _evaluate_rule(ing, rules[i]) }

\* the action of the first rule of the list that matches, "PASS" when none does
FirstMatchAction(ing, rules) ==
    LET m == MatchingRules(ing, rules)
    IN  IF m = {} THEN "PASS"
        ELSE rules[CHOOSE i \in m : \A j \in m : i <= j].action

\* the lookups of the last evaluate call that produced an Ingredient
ResolvedCalls == { i \in 1..Len(out.calls) : ~IsNone(out.calls[i].ing) }

\* lookup i of the last evaluate call is for a trace (<2%) ingredient
IsTraceCall(i) == EngineKey(out.calls[i].raw) \in req.trace_ingredient_keys

\* the (lookup, restriction) pairs of the last evaluate call whose ingredient
\* matches some rule with action FAIL of a selected restriction
MatchesSomeFailRule(i, k) ==
    LET rules == Restrictions[out.rest_ids[k]].rules
    IN  \E r \in MatchingRules(out.calls[i].ing, rules) : rules[r].action = "FAIL"

\* ... and those for which the restriction evaluates to FAIL
Fails(i, k) ==
    FirstMatchAction(out.calls[i].ing, Restrictions[out.rest_ids[k]].rules) = "FAIL"

FailingPairs ==
    { p \in ResolvedCalls \X (1..Len(out.rest_ids)) : Fails(p[1], p[2]) }

\* C1, as stated: if an input ingredient resolves to an Ingredient that matches
\* a rule with action FAIL of a selected restriction, the status is NOT_SAFE and
\* the ingredient is in triggered_ingredients.
C1_AnyFailRuleMatch ==
    pc = "returned" =>
        \A i \in ResolvedCalls : \A k \in 1..Len(out.rest_ids) :
            MatchesSomeFailRule(i, k) =>
                /\ out.verdict.status = "NOT_SAFE"
                /\ InSeq(out.calls[i].ing.canonical_name, out.verdict.triggered_ingredients)

\* C1, amended: if an input ingredient resolves to an Ingredient for which a
\* selected restriction evaluates to FAIL (its first matching rule has action
\* FAIL), the status is NOT_SAFE and the ingredient is in triggered_ingredients.
C1_FailTriggersNotSafe ==
    pc = "returned" =>
        \A p \in FailingPairs :
            /\ out.verdict.status = "NOT_SAFE"
            /\ InSeq(out.calls[p[1]].ing.canonical_name, out.verdict.triggered_ingredients)

\* a verdict with a failing pair next to an unresolved, non-trace ingredient
C1_Witness ==
    /\ pc = "returned"
    /\ FailingPairs # {}
    /\ out.verdict.uncertain_ingredients # <<>>
    /\ out.verdict.status = "NOT_SAFE"

\* C2: if no restriction fails and some input ingredient is non-trace and was
\* matched by no resolver tier, the status is UNCERTAIN (with or without the
\* API fallback, a full API failure included).
C2_UnresolvedIsUncertain ==
    ( /\ pc = "returned"
      /\ FailingPairs = {}
      /\ \E i \in 1..Len(out.calls) : IsNone(out.calls[i].ing) /\ ~IsTraceCall(i) )
    => out.verdict.status = "UNCERTAIN"

\* a verdict without failure whose only unresolved ingredient ended api_failed,
\* next to a resolved one
C2_Witness ==
    /\ pc = "returned"
    /\ FailingPairs = {}
    /\ ResolvedCalls # {}
    /\ \E i \in 1..Len(out.calls) :
         /\ IsNone(out.calls[i].ing) /\ ~IsTraceCall(i)
         /\ out.calls[i].level = "api_failed"
    /\ out.verdict.status = "UNCERTAIN"

\* C3, as stated: if all input ingredients resolve and no rule of a selected
\* restriction fails, the status is SAFE.
C3_AllResolvedIsSafe ==
    ( /\ pc = "returned"
      /\ \A i \in 1..Len(out.calls) : ~IsNone(out.calls[i].ing)
      /\ FailingPairs = {} )
    => out.verdict.status = "SAFE"

\* C3, amended: on a non-empty ingredient list, if all input ingredients resolve
\* and no rule of a selected restriction fails, the status is SAFE.
C3_NonEmptyAllResolvedIsSafe ==
    ( /\ pc = "returned"
      /\ req.ingredient_strings # <<>>
      /\ \A i \in 1..Len(out.calls) : ~IsNone(out.calls[i].ing)
      /\ FailingPairs = {} )
    => out.verdict.status = "SAFE"

\* a SAFE verdict over two resolved ingredients, one of which raised a warning
C3_Witness ==
    /\ pc = "returned"
    /\ Len(out.calls) >= 2
    /\ \A i \in 1..Len(out.calls) : ~IsNone(out.calls[i].ing)
    /\ FailingPairs = {}
    /\ out.found.warning_count > 0
    /\ out.verdict.status = "SAFE"

\* C4: every verdict has 0 <= confidence_score <= 1 (a score is a count of
\* ten-thousandths).
C4_ConfidenceInUnitInterval ==
    pc = "returned" =>
        out.verdict.confidence_score >= 0 /\ out.verdict.confidence_score <= 10000

\* a verdict whose penalties exceed the effective ratio: an api_failed
\* ingredient (weight 0.35) next to other uncertain ones, scored 0
C4_Witness ==
    /\ pc = "returned"
    /\ \E i \in 1..Len(out.calls) : out.calls[i].level = "api_failed"
    /\ Len(out.verdict.uncertain_ingredients) >= 2
    /\ out.verdict.confidence_score = 0

\* C5, as stated: whenever an ingredient of the call ended as api_failed, the
\* confidence_score is at most 0.4, blank entries in the list included.
C5_ApiFailedCeiling ==
    ( /\ pc = "returned"
      /\ \E i \in 1..Len(out.calls) : out.calls[i].level = "api_failed" )
    => out.verdict.confidence_score <= 4000

\* the lookups of the last evaluate call that are in a failing pair
FailingCalls == { p[1] : p \in FailingPairs }

\* C6: whenever the status is NOT_SAFE and every triggering ingredient is a
\* trace ingredient, 0.2 <= confidence_score <= 0.5.
C6_TraceOnlyBand ==
    ( /\ pc = "returned"
      /\ out.verdict.status = "NOT_SAFE"
      /\ \A i \in FailingCalls : IsTraceCall(i) )
    => out.verdict.confidence_score >= 2000 /\ out.verdict.confidence_score <= 5000

\* a NOT_SAFE verdict triggered by a trace ingredient only, lifted to the floor
\* of the band
C6_Witness ==
    /\ pc = "returned"
    /\ out.verdict.status = "NOT_SAFE"
    /\ FailingCalls # {}
    /\ \A i \in FailingCalls : IsTraceCall(i)
    /\ out.verdict.uncertain_ingredients # <<>>
    /\ out.verdict.confidence_score = 2000

\* position of the first occurrence of x in xs
FirstIndex(x, xs) == CHOOSE i \in 1..Len(xs) : xs[i] = x /\ \A j \in 1..(i - 1) : xs[j] # x

\* ys holds the items of xs once each, ordered by their first occurrence in xs
IsDiscoveryOrder(ys, xs) ==
    /\ \A i, j \in 1..Len(ys) : i # j => ys[i] # ys[j]
    /\ SeqToSet(ys) = SeqToSet(xs)
    /\ \A i, j \in 1..Len(ys) : i < j => FirstIndex(ys[i], xs) < FirstIndex(ys[j], xs)

\* C7: in every verdict triggered_restrictions and triggered_ingredients hold no
\* duplicates and list their items in the order in which each was first
\* triggered.
C7_TriggeredDiscoveryOrder ==
    pc = "returned" =>
        /\ IsDiscoveryOrder(out.verdict.triggered_restrictions,
                            out.found.triggered_restrictions)
        /\ IsDiscoveryOrder(out.verdict.triggered_ingredients,
                            out.found.triggered_ingredients)

\* a verdict with two triggered restrictions and two triggered ingredients,
\* each of the two lists collected with repetitions
C7_Witness ==
    /\ pc = "returned"
    /\ Len(out.verdict.triggered_restrictions) >= 2
    /\ Len(out.verdict.triggered_ingredients) >= 2
    /\ Len(out.found.triggered_restrictions) > Len(out.verdict.triggered_restrictions)
    /\ Len(out.found.triggered_ingredients) > Len(out.verdict.triggered_ingredients)

\* C8: RestrictionRegistry.evaluate returns the action of the first rule of the
\* restriction's rule list that matches the ingredient, and PASS when no rule
\* matches; the rules after the first match have no say.
C8_FirstMatchDecides ==
    pc = "evaluated" =>
        rule_eval.result = FirstMatchAction(rule_eval.ing, rule_eval.restriction.rules)

\* a call in which a matching WARN rule comes before a matching FAIL rule
C8_Witness ==
    /\ pc = "evaluated"
    /\ LET rules == rule_eval.restriction.rules
       IN  \E i, j \in MatchingRules(rule_eval.ing, rules) :
              /\ i < j
              /\ \A k \in MatchingRules(rule_eval.ing, rules) : i <= k
              /\ rules[i].action = "WARN"
              /\ rules[j].action = "FAIL"
    /\ rule_eval.result = "WARN"

\* the dynamic ontology file holds an entry for the ingredient
InFile(file, ing) == \E i \in 1..Len(file) : file[i].ingredient.id = ing.id

\* the index resolves the canonical name and every alias to the ingredient
Indexed(index, ing) ==
    \A i \in 1..Len(IngredientKeys(ing)) :
        LET k == NormalizeKey(IngredientKeys(ing)[i])
        IN  k # <<>> => (k \in DOMAIN index /\ index[k] = ing)

\* the step is a resolve_with_fallback call that missed the registry with a
\* valid input and went to the external APIs
IsApiLookup ==
    /\ pc' \in {"resolved", "resolve_raised"}
    /\ ~call'.hit /\ call'.valid /\ call'.try_api

\* C9, as stated: on a registry miss with a valid input the API result is in
\* the dynamic ontology and in the index after the call exactly when its
\* confidence is high; a medium result is returned and neither the file nor the
\* index changes; on failure the call returns a null ingredient with source
\* api_failed.
C9_PersistExactlyOnHigh ==
    [][ IsApiLookup =>
          LET r == call'.fetched
              found == ~IsNone(r.ingredient)
          IN  /\ (found /\ r.confidence = "high") =>
                    /\ call'.ing = r.ingredient
                    /\ InFile(dyn_file', r.ingredient)
                    /\ Indexed(by_key', r.ingredient)
              /\ ~(found /\ r.confidence = "high") =>
                    /\ dyn_file' = dyn_file
                    /\ by_key' = by_key
              /\ (found /\ r.confidence = "medium") => call'.ing = r.ingredient
              /\ ~found => (IsNone(call'.ing) /\ call'.source = "api_failed")
      ]_vars

\* the inputs of the model that look like a sentence
SentenceRaws == { RAW_question, RAW_long, RAW_stopwords }

\* C10: when resolve_with_fallback misses the registry and the input looks like
\* a sentence, the call returns a null ingredient with confidence low and sends
\* no request to an external API.
C10_InvalidRejectedBeforeApi ==
    (call.raw \in SentenceRaws /\ ~call.hit) =>
        /\ IsNone(call.ing)
        /\ call.level = "low"
        /\ call.requests = 0

\* a call with the API enabled on an input of more than five words, rejected,
\* in a process whose earlier lookups have reached the external APIs
C10_Witness ==
    /\ call.raw = RAW_long
    /\ ~call.hit
    /\ call.try_api
    /\ api_cache # EmptyIndex
    /\ IsNone(call.ing) /\ call.level = "low" /\ call.requests = 0

\* C11: after an evaluate call that returned, every lookup of the call that
\* ended unresolved has an entry under its normalized key in the
\* unknown-ingredient log.
C11_UnresolvedIsLogged ==
    pc = "returned" =>
        \A i \in 1..Len(out.calls) :
            IsNone(out.calls[i].ing) =>
                /\ NormalizeKey(out.calls[i].raw) \in DOMAIN unknown_log
                /\ unknown_log[NormalizeKey(out.calls[i].raw)].frequency >= 1

\* C12: an evaluate call never ends in an exception; in particular a failed
\* write of the dynamic ontology file during the promotion of a
\* high-confidence API result does not leave evaluate.
C12_WriteFailureDoesNotRaise ==
    pc # "raised" /\ ~out.raised

\* C13: when the restrictions file is missing, the restriction registry of the
\* constructed engine is empty and every evaluate call that returns has
\* status UNCERTAIN and confidence 0.
C13_MissingRestrictionsIsUncertain ==
    (pc = "returned" /\ files.restrictions = "missing") =>
        /\ restrictions = EmptyRestrictions
        /\ out.verdict.status = "UNCERTAIN"
        /\ out.verdict.confidence_score = 0

\* C14: whatever data files are missing or malformed, constructing the engine
\* does not raise; a registry whose file is missing or malformed is empty (the
\* index holds no key of the static ontology, the restriction registry no
\* restriction); and a call on an engine whose static ontology or restrictions
\* file is missing or malformed returns UNCERTAIN.
C14_BadDataFilesLoadEmpty ==
    /\ pc # "construct_raised"
    /\ (pc = "request" /\ files.ontology # "ok") => DOMAIN by_key \cap StaticKeys = {}
    /\ (pc = "request" /\ files.restrictions # "ok") => restrictions = EmptyRestrictions
    /\ ( /\ pc = "returned"
         /\ (files.ontology # "ok" \/ files.restrictions # "ok") ) =>
            out.verdict.status = "UNCERTAIN"

\* the tries a get_with_retries call has made
Tries == Len(http.warned) + (IF http.resp = "response" THEN 1 ELSE 0)

\* the call with the default arguments
IsDefaultGet ==
    http.max_retries = DEFAULT_MAX_RETRIES /\ http.initial_backoff = DEFAULT_INITIAL_BACKOFF

UsdaAnswer == fetch_usda_fdc(QueryOf(fetch.key), fetch.world.usda_key, fetch.world.usda)
OffAnswer == fetch_open_food_facts(QueryOf(fetch.key), fetch.world.off)

AtLeastMedium(r) == ~IsNone(r.ingredient) /\ r.confidence \in { "medium", "high" }

\* the last step was a fetch that was not answered from the cache
WentToApis == pc = "fetched" /\ ~(fetch.use_cache /\ fetch.cached_before)

Consulted(service) == InSeq(service, fetch.consulted)

\* C16: a fetch that is not answered from the cache calls USDA first, exactly
\* when a key is configured, and Open Food Facts after it, only when it is
\* enabled; a USDA result of confidence medium or high is returned without
\* Open Food Facts being consulted; else an Open Food Facts result of
\* confidence medium or high is returned; else the result holds no ingredient.
C16_UsdaThenOff ==
    WentToApis =>
        LET usda_ok == fetch.world.usda_key /\ AtLeastMedium(UsdaAnswer)
            off_ok == fetch.world.off_enabled /\ AtLeastMedium(OffAnswer)
        IN  /\ fetch.consulted \in { <<>>, <<"usda_fdc">>, <<"open_food_facts">>,
                                     <<"usda_fdc", "open_food_facts">> }
            /\ Consulted("usda_fdc") <=> fetch.world.usda_key
            /\ Consulted("open_food_facts") => fetch.world.off_enabled
            /\ usda_ok => (fetch.result = UsdaAnswer /\ ~Consulted("open_food_facts"))
            /\ (~usda_ok /\ fetch.world.off_enabled) => Consulted("open_food_facts")
            /\ (~usda_ok /\ off_ok) => fetch.result = OffAnswer
            /\ (~usda_ok /\ ~off_ok) =>
                  (IsNone(fetch.result.ingredient) /\ fetch.result.confidence = "low")

\* USDA answers with a food of confidence medium while Open Food Facts is
\* enabled and would answer with confidence high: the USDA result is returned
\* and Open Food Facts is not consulted
C16_Witness ==
    /\ WentToApis
    /\ fetch.world.usda_key /\ fetch.world.off_enabled
    /\ UsdaAnswer.confidence = "medium" /\ ~IsNone(UsdaAnswer.ingredient)
    /\ OffAnswer.confidence = "high" /\ ~IsNone(OffAnswer.ingredient)
    /\ fetch.result = UsdaAnswer
    /\ fetch.consulted = <<"usda_fdc">>

\* C17: a fetch with the cache in use, for a key whose entry was stored more
\* than an hour before, consults the external services again (when one is
\* configured).
C17_ExpiredEntryIsRefetched ==
    ( /\ pc = "fetched"
      /\ fetch.use_cache /\ fetch.cached_before /\ fetch.age > 1
      /\ (fetch.world.usda_key \/ fetch.world.off_enabled) ) =>
        fetch.consulted # <<>>

\* C18: the cache never holds more than 500 entries, and after a fetch with the
\* cache in use that went to the services, the result is in the cache under
\* the key, however full the cache was.
C18_CacheBoundedAndStored ==
    /\ Cardinality(DOMAIN api_cache) <= CACHE_MAX_ENTRIES
    /\ (WentToApis /\ fetch.use_cache) =>
          /\ fetch.key \in DOMAIN api_cache
          /\ api_cache[fetch.key].result = fetch.result

\* the frequency of a key in a log, 0 when the key has no entry
FrequencyIn(log, k) == IF k \in DOMAIN log THEN log[k].frequency ELSE 0

\* C19: after every record call each entry of the log holds at most 20 raw
\* inputs and at most 10 restriction ids, no entry is lost, no frequency
\* decreases, and the frequency of the recorded key has grown by exactly 1
\* while every other frequency is unchanged.
C19_LogCapsAndFrequency ==
    [][ pc' = "recorded" =>
          /\ DOMAIN unknown_log \subseteq DOMAIN unknown_log'
          /\ \A k \in DOMAIN unknown_log' :
                /\ Len(unknown_log'[k].raw_inputs) <= RAW_INPUTS_CAP
                /\ Len(unknown_log'[k].restriction_ids_sample) <= RESTRICTION_SAMPLE_CAP
                /\ unknown_log'[k].frequency =
                      FrequencyIn(unknown_log, k) + (IF rec'.key = k THEN 1 ELSE 0)
      ]_vars

\* a record call with a new spelling and new restriction ids on an entry that
\* is full: the spelling and the ids are dropped and the frequency has grown
C19_Witness ==
    /\ pc = "recorded"
    /\ rec.key = <<"xyz">> /\ rec.raw = RawVariant(RAW_INPUTS_CAP + 5)
    /\ rec.restriction_ids = SubSeq(RestrictionIdPool, 11, 12)
    /\ Len(unknown_log[<<"xyz">>].raw_inputs) = RAW_INPUTS_CAP
    /\ ~InSeq(rec.raw, unknown_log[<<"xyz">>].raw_inputs)
    /\ Len(unknown_log[<<"xyz">>].restriction_ids_sample) = RESTRICTION_SAMPLE_CAP
    /\ ~InSeq("no_pork", unknown_log[<<"xyz">>].restriction_ids_sample)
    /\ unknown_log[<<"xyz">>].frequency = rec.before + 1
    /\ rec.before >= 2 * RAW_INPUTS_CAP

\* the fields that an update call leaves out (absent, or passed as None)
AbsentFields(kwargs) == { f \in ProfileFields : kwargs[f] = None }

C21_RepeatedCallSameVerdict ==
    pc = "repeated" => again.second = again.first

\* the ids of the static ontology followed by those of the dynamic ontology file
OntologyIds ==
    [ i \in 1..Len(StaticOntology) |-> StaticOntology[i].id ]
      \o [ i \in 1..Len(dyn_file) |-> dyn_file[i].ingredient.id ]

\* C22: after any sequence of appends and API promotions no ingredient id
\* occurs twice in the static ontology and the dynamic ontology taken together.
C22_IdsUniqueAcrossOntologies ==
    \A i, j \in 1..Len(OntologyIds) : OntologyIds[i] = OntologyIds[j] => i = j

\* C23 as stated: the list flatten_ingredients returns has no duplicates, and
\* flattening each of its atoms again yields the same list.
C23_FlattenIdempotentNoDuplicates ==
    pc = "flattened" =>
        /\ \A i, j \in 1..Len(flat.result) : flat.result[i] = flat.result[j] => i = j
        /\ flat.reflattened = flat.result

\* the lookups of the last evaluate call that found nothing for a trace key
UnresolvedTraceCalls ==
    { i \in 1..Len(out.calls) : out.calls[i].is_trace /\ IsNone(out.calls[i].ing) }

C25_TraceOnlyIffEveryFailureIsTrace ==
    (pc = "returned" /\ ~out.early) =>
        (out.triggered_only_by_minor <=>
            (FailingPairs # {} /\ \A p \in FailingPairs : IsTraceCall(p[1])))

\* the number of parts of the first s segments of the last preprocessed label
RECURSIVE PartsBefore(_, _)
PartsBefore(seg_parts, s) ==
    IF s = 0 THEN 0 ELSE PartsBefore(seg_parts, s - 1) + Len(seg_parts[s])

\* the segment that part p of raw_flat comes from
SegmentOfPart(seg_parts, p) ==
    CHOOSE s \in 1..Len(seg_parts) :
        PartsBefore(seg_parts, s - 1) < p /\ p <= PartsBefore(seg_parts, s)

\* part p is, or comes after, a part of its own segment that holds the marker
MarkerSeenInSegment(p) ==
    \E q \in 1..p :
        /\ SegmentOfPart(prep.seg_parts, q) = SegmentOfPart(prep.seg_parts, p)
        /\ _is_trace_section(prep.marks[q].part)

\* C26: preprocess_ingredients marks an atom as trace exactly when the marker
\* was seen in the atom's own segment, in the atom itself or in an earlier one:
\* later atoms of that segment inherit the flag, atoms before the marker and
\* atoms of other segments do not.
C26_TraceFlagWithinSegment ==
    pc = "preprocessed" =>
        \A p \in 1..Len(prep.marks) :
            prep.marks[p].kept => (prep.marks[p].trace <=> MarkerSeenInSegment(p))

\* the index as IngredientRegistry._load built it at the start of the process
LoadedIndex == LoadIndex(StaticOntology, <<>>)

\* C27: after any sequence of look-ups with fallback and promotions, resolve
\* returns for every key that was indexed at load the Ingredient it returned
\* right after the load.
C27_LoadedKeysResolveUnchanged ==
    \A k \in DOMAIN LoadedIndex : resolve(by_key, k) = LoadedIndex[k]

\* both append_to_dynamic_ontology calls have returned
AllReturned == \A w \in Workers : writers.w[w].at = "returned"

\* C28: under every interleaving of the steps of the two calls the file is
\* never a partially written document, and once both calls have returned it
\* holds the ingredient of each of the two workers.
C28_BothPromotionsPersisted ==
    pc = "promoting" =>
        /\ writers.disk # "partial"
        /\ AllReturned => \A w \in Workers : InFile(dyn_file, writers.w[w].ingredient)

\* the threads between the test of the cache size and the assignment
Storing == { t \in Threads : fetchers.t[t].at = "storing" }

\* C29: under every interleaving of the two fetches at most one thread is
\* between the size test and the assignment, the cache holds at most 500
\* entries, and every key maps to one (result, timestamp) pair.
C29_CacheWritersExcluded ==
    pc = "fetching" =>
        /\ Cardinality(Storing) <= 1
        /\ Cardinality(DOMAIN api_cache) <= CACHE_MAX_ENTRIES
        /\ \A k \in DOMAIN api_cache : DOMAIN api_cache[k] = { "result", "time" }

\* C30: no element of the ingredients list that detect_intent returns is,
\* lower-cased, a diet keyword.
C30_NoDietKeywordAmongIngredients ==
    pc = "detected" =>
        \A j \in 1..Len(intent.ingredients) :
            Lower(intent.ingredients[j]) \notin _DIET_NAMES_LOWER

=============================================================================
